---- MODULE Spec2Model ----
(***************************************************************************)
(* Model of the DaphneDSL visitor (src/parser/daphnedsl/DaphneDSLVisitor.cpp):*)
(* lowering of statements into a region-structured SSA IR, the scoped      *)
(* symbol table, and the rectification of early returns in function bodies. *)
(*                                                                         *)
(* IR.  An operation is a record                                           *)
(*   [k, id, tg, opnds, rty, nr, r1, r2]                                   *)
(* k     kind: "const" "call" "cmp" "rename" "ret" "yield" "condition"     *)
(*       "const 1" (the constant 1 that the visitor creates)               *)
(*       "if" "while" "for" "parfor" ...                                   *)
(* id,tg identity: id is the number given at creation, tg the sequence of  *)
(*       clone tags (Operation::clone gives a new operation)               *)
(* opnds sequence of operand values                                        *)
(* rty   sequence of the types of its results                              *)
(* nr    number of regions that hold a block (if: 1 = then only, 2 = then  *)
(*       and else; while: before, after; for, parfor: body)                *)
(* r1,r2 the blocks of the regions, sequences of operations                *)
(* A value is <<cls, id, tg, idx, ty>>: result idx of operation (id,tg)    *)
(* (cls "res"), block argument idx of its region 1 or 2 ("arg1", "arg2"),  *)
(* or function parameter idx ("param"); ty is its type.                    *)
(***************************************************************************)
EXTENDS Integers, Sequences, FiniteSets, TLC

\* ------------------------------------------------------------------------
\* Bounds of the explored scripts
\* ------------------------------------------------------------------------
MaxStmts == 4
MaxDepth == 3
MaxLoops == 1
MaxParFor == 1
MaxPrints == 1
MaxIters == 12
MaxAssigns == 2
MaxBlocks == 1
IntBits == 4
MaxStep == 3
MaxFuncs == 2
MaxRows == 6
MaxCols == 2

NoTag == <<>>
Null == <<"null", 0, NoTag, 0, "none">>

Val(cls, id, tg, idx, ty) == <<cls, id, tg, idx, ty>>
Res(op, idx, ty) == <<"res", op.id, op.tg, idx, ty>>
TypeOf(v) == v[5]

Op(k, id, opnds, rty, nr, r1, r2) ==
  [k |-> k, id |-> id, tg |-> NoTag, opnds |-> opnds, rty |-> rty,
   nr |-> nr, r1 |-> r1, r2 |-> r2]
Leaf(k, id, opnds, rty) == Op(k, id, opnds, rty, 0, <<>>, <<>>)
Results(op) == [j \in 1..Len(op.rty) |-> Res(op, j, op.rty[j])]

Min(S) == CHOOSE m \in S : \A n \in S : m <= n
Max(S) == CHOOSE m \in S : \A n \in S : m >= n
Front(s) == SubSeq(s, 1, Len(s) - 1)
Last(s) == s[Len(s)]

\* ------------------------------------------------------------------------
\* ScopedSymbolTable: a stack of scopes, innermost last; a scope maps a name
\* to [value, isReadOnly]
\* ------------------------------------------------------------------------
Names == {"x", "y", "i"}
NameOrder == <<"i", "x", "y">>

SymbolInfo(v, ro) == [value |-> v, isReadOnly |-> ro]
EmptyScope == [n \in {} |-> SymbolInfo(Null, FALSE)]

RECURSIVE SortedFrom(_, _)
SortedFrom(S, k) ==
  IF k > Len(NameOrder) THEN <<>>
  ELSE (IF NameOrder[k] \in S THEN <<NameOrder[k]>> ELSE <<>>) \o SortedFrom(S, k + 1)
\* iteration order of a std::map / std::set keyed by name
Sorted(S) == SortedFrom(S, 1)

has(st, sym) == \E s \in 1..Len(st) : sym \in DOMAIN st[s]

hasValue(st, v) == \E s \in 1..Len(st) : \E n \in DOMAIN st[s] : st[s][n].value = v

InnermostWith(st, sym) ==
  CHOOSE s \in 1..Len(st) : sym \in DOMAIN st[s]
                            /\ \A t \in (s+1)..Len(st) : sym \notin DOMAIN st[t]

get(st, sym) == st[InnermostWith(st, sym)][sym]

getIn(st, sym, tab) == IF sym \in DOMAIN tab THEN tab[sym] ELSE get(st, sym)

\* the name that is bound to the value v: the first one in tab, else the
\* first one in the innermost scope that binds v
getSymbol(st, v, tab) ==
  LET inTab == {n \in DOMAIN tab : tab[n].value = v}
      scopes == {s \in 1..Len(st) : \E n \in DOMAIN st[s] : st[s][n].value = v}
      inScope == {n \in DOMAIN st[Max(scopes)] : st[Max(scopes)][n].value = v}
  IN  IF inTab # {} THEN Sorted(inTab)[1] ELSE Sorted(inScope)[1]

PutInScope(scope, sym, info) ==
  [n \in (DOMAIN scope) \cup {sym} |-> IF n = sym THEN info ELSE scope[n]]

putAllowed(st, sym) ==
  ~(sym \in DOMAIN st[Len(st)] /\ st[Len(st)][sym].isReadOnly)

put(st, sym, info) == [st EXCEPT ![Len(st)] = PutInScope(st[Len(st)], sym, info)]

putTableAllowed(st, tab) == \A n \in DOMAIN tab : putAllowed(st, n)

putTable(st, tab) ==
  [st EXCEPT ![Len(st)] =
     [n \in (DOMAIN st[Len(st)]) \cup (DOMAIN tab) |->
        IF n \in DOMAIN tab THEN tab[n] ELSE st[Len(st)][n]]]

pushScope(st) == Append(st, EmptyScope)

Remaining(st) == SubSeq(st, 1, Len(st) - 1)

\* the symbols of the innermost scope that also exist in an enclosing scope
popScopeOw(st) ==
  LET cur == st[Len(st)]
      keep == {n \in DOMAIN cur : has(Remaining(st), n)}
  IN  [n \in keep |-> cur[n]]

mergeSymbols(lhs, rhs) == (DOMAIN lhs) \cup (DOMAIN rhs)

\* ------------------------------------------------------------------------
\* Access to the operation tree.  A position is a sequence of <<i, r>>:
\* operation i of the block, then its region r (1 or 2); the position of an
\* operation ends in <<i, 0>>.
\* ------------------------------------------------------------------------
RECURSIVE BlockAt(_, _)
BlockAt(block, pre) ==
  IF pre = <<>> THEN block
  ELSE LET op == block[pre[1][1]]
       IN  BlockAt(IF pre[1][2] = 1 THEN op.r1 ELSE op.r2, Tail(pre))

RECURSIVE SetBlockAt(_, _, _)
SetBlockAt(block, pre, new) ==
  IF pre = <<>> THEN new
  ELSE LET i == pre[1][1]
           op == block[i]
       IN  [block EXCEPT ![i] =
              IF pre[1][2] = 1
              THEN [op EXCEPT !.r1 = SetBlockAt(op.r1, Tail(pre), new)]
              ELSE [op EXCEPT !.r2 = SetBlockAt(op.r2, Tail(pre), new)]]

\* Operation::getParentOp of the operations of the block at pre (pre # <<>>)
ParentOp(body, pre) == BlockAt(body, Front(pre))[Last(pre)[1]]

RECURSIVE AllOps(_)
\* every operation of a block, nested ones included
AllOps(block) ==
  UNION {{block[j]} \cup AllOps(block[j].r1) \cup AllOps(block[j].r2) : j \in 1..Len(block)}

OpKey(op) == <<op.id, op.tg>>
DefsOf(op) == {OpKey(o) : o \in AllOps(<<op>>)}

\* values used in the block whose defining operation is not in the block
Dangling(block) ==
  LET ops == AllOps(block)
      keys == {OpKey(o) : o \in ops}
  IN  {v \in UNION {{o.opnds[q] : q \in 1..Len(o.opnds)} : o \in ops} :
         v[1] # "param" /\ <<v[2], v[3]>> \notin keys}

\* ------------------------------------------------------------------------
\* Early returns (DaphneDSLVisitor.cpp, 1927-2144)
\* ------------------------------------------------------------------------
RECURSIVE WalkReturns(_, _, _)
RECURSIVE WalkRange(_, _, _, _)
\* the walk over the operations lo..hi of the block
WalkRange(block, pre, lo, hi) ==
  IF lo > hi THEN <<>>
  ELSE IF lo = hi
  THEN LET op == block[lo]
       IN  IF op.k = "ret" THEN << Append(pre, <<lo, 0>>) >>
           ELSE (IF op.nr >= 1 THEN WalkReturns(op.r1, Append(pre, <<lo, 1>>), 1) ELSE <<>>)
                \o (IF op.nr >= 2 THEN WalkReturns(op.r2, Append(pre, <<lo, 2>>), 1) ELSE <<>>)
  ELSE WalkRange(block, pre, lo, (lo + hi) \div 2)
       \o WalkRange(block, pre, ((lo + hi) \div 2) + 1, hi)

\* Block::walk over the ReturnOps: their positions in walk order, from
\* operation i of the block on
WalkReturns(block, pre, i) == WalkRange(block, pre, i, Len(block))

\* the nesting level the walk computes for a return is the length of its
\* position; a return replaces the candidate only when strictly deeper
MostNestedStrict(paths) ==
  LET m == Max({Len(paths[j]) : j \in 1..Len(paths)})
      first == Min({j \in 1..Len(paths) : Len(paths[j]) = m})
  IN  paths[first]

MostNested(paths) == MostNestedStrict(paths)

levelOfMostNested(block) ==
  LET paths == WalkReturns(block, <<>>, 1)
  IN  IF paths = <<>> THEN 0 ELSE Len(MostNested(paths))

FirstRet(block) ==
  LET rs == {j \in 1..Len(block) : block[j].k = "ret"}
  IN  IF rs = {} THEN 0 ELSE Min(rs)

\* erases every operation behind the first return of the block
removeOperationsBeforeReturnOp(block) == SubSeq(block, 1, FirstRet(block))

UpToYield(tail) ==
  LET ys == {j \in 1..Len(tail) : tail[j].k = "yield"}
  IN  IF ys = {} THEN tail ELSE SubSeq(tail, 1, Min(ys))

EndsInYield(ops) == ops # <<>> /\ Last(ops).k = "yield"

RECURSIVE OpsAfterIf(_, _, _, _)
\* first loop of rectifyIfCaseWithoutReturnOp: the operations visited from
\* the one behind operation i of the block at pre; at a yield the walk
\* continues behind the parent if.  own: the block is the block of the
\* if with the early return (operations are moved, not cloned).
OpsAfterIf(body, pre, i, own) ==
  LET B == BlockAt(body, pre)
      part == UpToYield(SubSeq(B, i + 1, Len(B)))
      items == [j \in 1..Len(part) |-> [op |-> part[j], moved |-> own]]
  IN  IF ~EndsInYield(part) THEN [st |-> "ok", ops |-> items]
      ELSE IF pre = <<>> THEN [st |-> "ub", ops |-> items]
      ELSE IF ParentOp(body, pre).k # "if" THEN [st |-> "error", ops |-> items]
      ELSE LET rest == OpsAfterIf(body, Front(pre), Last(pre)[1], FALSE)
           IN  [st |-> rest.st, ops |-> items \o rest.ops]

Remap(v, t, defs) ==
  IF v[1] # "param" /\ <<v[2], v[3]>> \in defs THEN [v EXCEPT ![3] = Append(@, t)] ELSE v

RECURSIVE CloneWith(_, _, _)
CloneWith(op, t, defs) ==
  [op EXCEPT !.tg = Append(op.tg, t),
             !.opnds = [q \in 1..Len(op.opnds) |-> Remap(op.opnds[q], t, defs)],
             !.r1 = [j \in 1..Len(op.r1) |-> CloneWith(op.r1[j], t, defs)],
             !.r2 = [j \in 1..Len(op.r2) |-> CloneWith(op.r2[j], t, defs)]]

\* Operation::clone() with a mapping of its own: the operation and the
\* operations nested in it are new, operands defined outside it are kept
clone(op, t) == CloneWith(op, t, DefsOf(op))

RECURSIVE ReplaceUsesDirect(_, _, _, _)
\* replaceUsesWithIf(from[q] -> to[q]), q = 1..n in turn, restricted to the
\* operands of the operations that lie directly in the block
ReplaceUsesDirect(block, from, to, q) ==
  IF q > Len(from) \/ q > Len(to) THEN block
  ELSE ReplaceUsesDirect(
         [j \in 1..Len(block) |->
            [block[j] EXCEPT !.opnds =
               [o \in 1..Len(block[j].opnds) |->
                  IF block[j].opnds[o] = from[q] THEN to[q] ELSE block[j].opnds[o]]]],
         from, to, q + 1)

RemoveAt(s, j) == SubSeq(s, 1, j - 1) \o SubSeq(s, j + 1, Len(s))

RECURSIVE RemoveYields(_, _, _)
\* second loop of rectifyIfCaseWithoutReturnOp; chain[k] is currIfOp at the
\* k-th yield
RemoveYields(block, chain, k) ==
  LET ys == {j \in 1..Len(block) : block[j].k = "yield"}
  IN  IF ys = {} THEN [st |-> "ok", ops |-> block]
      ELSE IF k > Len(chain) THEN [st |-> "ub", ops |-> block]
      ELSE LET j == Min(ys)
               replaced == ReplaceUsesDirect(block, Results(chain[k]), block[j].opnds, 1)
           IN  RemoveYields(RemoveAt(replaced, j), chain, k + 1)

RECURSIVE IfAncestors(_, _)
\* dyn_cast_or_null<scf::IfOp>(currIfOp->getParentOp()), repeatedly
IfAncestors(body, pre) ==
  IF pre = <<>> THEN <<>>
  ELSE IF ParentOp(body, pre).k = "if"
       THEN <<ParentOp(body, pre)>> \o IfAncestors(body, Front(pre))
       ELSE <<>>

\* rectifyIfCaseWithoutReturnOp, 1966-1999, for the operations `after` that
\* its first loop visits: they are moved or cloned to the end of caseBlock,
\* then the yields are removed
PlaceOpsAfterIf(body, pre, i, withYield, tag0, after) ==
  LET B == BlockAt(body, pre)
      placed == [j \in 1..Len(after.ops) |->
                   IF after.ops[j].moved THEN after.ops[j].op
                   ELSE clone(after.ops[j].op, tag0 + j)]
      nMoved == Cardinality({j \in 1..Len(after.ops) : after.ops[j].moved})
      stripped == RemoveYields(withYield \o placed, <<B[i]>> \o IfAncestors(body, pre), 1)
  IN  [st |-> IF after.st # "ok" THEN after.st ELSE stripped.st,
       ops |-> stripped.ops,
       body |-> SetBlockAt(body, pre, SubSeq(B, 1, i) \o SubSeq(B, i + 1 + nMoved, Len(B))),
       tags |-> Len(after.ops)]

rectifyIfCaseWithoutReturnOp(body, pre, i, caseBlock, tag0) ==
  PlaceOpsAfterIf(body, pre, i,
                  IF caseBlock = <<>> \/ Last(caseBlock).k # "yield"
                  THEN Append(caseBlock, Leaf("yield", 0, <<>>, <<>>))
                  ELSE caseBlock,
                  tag0, OpsAfterIf(body, pre, i, TRUE))

\* replaceReturnWithYield that creates no yield and erases no return
replaceReturnKept(block, id) == block

\* replaceReturnWithYield that creates the yield but does not erase the
\* return
replaceReturnNotErased(block, id) == Append(block, Leaf("yield", id, Last(block).opnds, <<>>))

\* replaceReturnWithYield, 2002-2007
replaceReturnWithYield(block, id) ==
  [block EXCEPT ![Len(block)] = Leaf("yield", id, Last(block).opnds, <<>>)]

\* rectifyEarlyReturn, 2023-2029 and 2047-2053: the last operation of the new
\* block has to be a ReturnOp (back() of an empty block is undefined)
BackIsReturn(r) ==
  [r EXCEPT !.st = IF r.st # "ok" THEN r.st
                   ELSE IF r.ops = <<>> THEN "ub"
                   ELSE IF Last(r.ops).k # "ret" THEN "error"
                   ELSE "ok"]

\* one of the two region builders of rectifyEarlyReturn
CaseBlock(body, pre, i, ops, tag0) ==
  BackIsReturn(IF FirstRet(ops) # 0
               THEN [st |-> "ok", ops |-> removeOperationsBeforeReturnOp(ops),
                     body |-> body, tags |-> 0]
               ELSE rectifyIfCaseWithoutReturnOp(body, pre, i, ops, tag0))

\* rectifyEarlyReturn, 2058-2059: the new IfOp of the two new blocks; its
\* result types are the types of the operands of the then-block's yield
NewIfOp(id, cond, thenBlock, elseBlock) ==
  Op("if", id, cond,
     [q \in 1..Len(Last(thenBlock).opnds) |-> TypeOf(Last(thenBlock).opnds[q])],
     2, thenBlock, elseBlock)

\* rectifyEarlyReturn, 2056-2061: the new IfOp and the ReturnOp of its
\* results take the place of operation i of the block at pre
ReplaceIfOp(body, pre, i, newIfOp, id) ==
  LET B == BlockAt(body, pre)
      returnOp == Leaf("ret", id, Results(newIfOp), <<>>)
  IN  SetBlockAt(body, pre,
                 SubSeq(B, 1, i - 1) \o <<newIfOp, returnOp>> \o SubSeq(B, i + 1, Len(B)))

\* the outcome of rectifyEarlyReturn for the results th and el of its two
\* region builders and the body it builds
EarlyReturnResult(body, th, el, newBody) ==
  IF th.st # "ok" THEN [st |-> th.st, body |-> body, tags |-> 0]
  ELSE IF el.st # "ok" THEN [st |-> el.st, body |-> body, tags |-> 0]
  ELSE IF Dangling(newBody) # {} THEN [st |-> "ub", body |-> body, tags |-> 0]
  ELSE [st |-> "ok", body |-> newBody, tags |-> th.tags + el.tags]

\* rectifyEarlyReturn, 2056-2061: th and el are what insertThenBlock and
\* insertElseBlock have built
InsertElseBlock(body, pre, i, id0, cond, th, el) ==
  EarlyReturnResult(body, th, el,
    ReplaceIfOp(el.body, pre, i,
                NewIfOp(id0 + 2, cond, replaceReturnWithYield(th.ops, id0),
                        replaceReturnWithYield(el.ops, id0 + 1)),
                id0 + 3))

\* rectifyEarlyReturn, 2032-2055: th is what insertThenBlock has built;
\* insertElseBlock runs on the body it has left
InsertThenBlock(body, pre, i, id0, tag0, ifOp, th) ==
  InsertElseBlock(body, pre, i, id0, ifOp.opnds, th,
                  CaseBlock(th.body, pre, i, IF ifOp.nr = 2 THEN ifOp.r2 ELSE <<>>,
                            tag0 + th.tags))

\* rectifyEarlyReturn, 2011-2031: insertThenBlock on the then-block of ifOp
RectifyIfOp(body, pre, i, id0, tag0, ifOp) ==
  InsertThenBlock(body, pre, i, id0, tag0, ifOp, CaseBlock(body, pre, i, ifOp.r1, tag0))

rectifyEarlyReturn(body, pre, i, id0, tag0) ==
  RectifyIfOp(body, pre, i, id0, tag0, BlockAt(body, pre)[i])

\* ------------------------------------------------------------------------
\* State
\* ------------------------------------------------------------------------
VARIABLES
  pc,          \* "script" | "lower" | "rectify" | "finish" | "done" | "error" | "crash"
  stack,       \* the open constructs, innermost last; the last frame's ops
               \* is the block at the builder's insertion point
  symbolTable, \* ScopedSymbolTable
  nextId,      \* number of the next operation to create
  nextTag,     \* number of the next clone
  cnt,         \* statements lowered so far, by kind
  funcBlock,   \* the function's block once the body is lowered
  origBlock,   \* funcBlock as it was before rectifyEarlyReturns
  iters,       \* rectifyEarlyReturns: iterations of the loop so far
  err,         \* the error that stopped lowering, or "none"
  forLoop,     \* the run of a counted loop: its bounds, counter and the
               \* values its induction variable has taken
  functionsSymbolMap, \* the registered functions, in the order of registration
  env,         \* an execution of the lowered block: the objects that the
               \* function is called with, the literals of the script and
               \* the objects that the names are bound to at the end
  idxCtx,      \* the last left indexing: the variable and the forms of
               \* the positions of its rows and columns
  maybeUDF,    \* the last call: its name, argument types and what
               \* findMatchingUDF gave
  globalSymbolTable, \* visitFunctionStatement: the symbol table of the script
               \* while the body of a function is lowered
  guard        \* visitFunctionStatement: the open constructs of the script
               \* (the insertion point that the InsertionGuard restores)

vars == <<pc, stack, symbolTable, nextId, nextTag, cnt, funcBlock, origBlock,
          iters, err, forLoop, functionsSymbolMap, idxCtx, maybeUDF, env,
          globalSymbolTable, guard>>

\* the variables that the lowering of a function body leaves alone
execVars == <<forLoop, functionsSymbolMap, idxCtx, maybeUDF, env, globalSymbolTable, guard>>

\* A frame is one construct whose handler is waiting for its body:
\* k     "func", "then", "else", "while", "dowhile", "for" or "parfor"
\* ops   the block the builder inserts into
\* cond  the condition value (if, while)
\* saved the finished thenBlock (else), the beforeBlock (while)
\* ow    owThen (else)
\* var   the induction variable's name (for, parfor)
\* aux   <<from, to, step, ph>> (for), <<from, to, step, ivPH>> (parfor)
Frame(k, ops, cond, saved, ow, var, aux) ==
  [k |-> k, ops |-> ops, cond |-> cond, saved |-> saved, ow |-> ow,
   var |-> var, aux |-> aux]
SimpleFrame(k, cond, saved, ow) == Frame(k, <<>>, cond, saved, ow, "", <<>>)

Top == stack[Len(stack)]
Emit(ops) == [stack EXCEPT ![Len(stack)].ops = @ \o ops]

Param(idx, ty) == Val("param", 0, NoTag, idx, ty)

\* replaces the uses of value from by value to in the operations of the
\* block itself, nested ones left as they are
ReplaceUsesShallow(block, from, to) ==
  [j \in 1..Len(block) |->
     [block[j] EXCEPT
        !.opnds = [o \in 1..Len(block[j].opnds) |->
                     IF block[j].opnds[o] = from THEN to ELSE block[j].opnds[o]]]]

RECURSIVE ReplaceUses(_, _, _)
\* replaces the uses of value from by value to in every operation of the
\* block, nested ones included
ReplaceUses(block, from, to) ==
  [j \in 1..Len(block) |->
     [block[j] EXCEPT
        !.opnds = [o \in 1..Len(block[j].opnds) |->
                     IF block[j].opnds[o] = from THEN to ELSE block[j].opnds[o]],
        !.r1 = ReplaceUses(block[j].r1, from, to),
        !.r2 = ReplaceUses(block[j].r2, from, to)]]

RECURSIVE ReplaceUsesSeq(_, _, _, _)
\* froms[q].replaceUsesWithIf(tos[q], <use lies in the region>) for q, q+1, ...
ReplaceUsesSeq(block, froms, tos, q) ==
  IF q > Len(froms) THEN block
  ELSE ReplaceUsesSeq(ReplaceUses(block, froms[q], tos[q]), froms, tos, q + 1)

Args(cls, id, tys) == [q \in 1..Len(tys) |-> Val(cls, id, NoTag, q, tys[q])]
Types(vals) == [q \in 1..Len(vals) |-> TypeOf(vals[q])]

\* equality of types that takes no notice of Unknown
equalTypes(t1, t2) == t1 = t2

\* CompilerUtils::equalUnknownAware on the modelled types
equalUnknownAware(t1, t2) == t1 = t2 \/ t1 = "unknown" \/ t2 = "unknown"

\* no result is rewired to its variable name
putSeqNone(st, names, vals, q) == st

RECURSIVE putSeq(_, _, _, _)
\* symbolTable.put(names[q], SymbolInfo(vals[q], false)) for q, q+1, ...
putSeq(st, names, vals, q) ==
  IF q > Len(names) THEN st
  ELSE putSeq(put(st, names[q], SymbolInfo(vals[q], FALSE)), names, vals, q + 1)

putSeqAllowed(st, names) == \A q \in 1..Len(names) : putAllowed(st, names[q])

\* the end of a block statement that leaves its scope on the stack
BlockEndKept(st) == st

\* the end of a block statement that hands every symbol of its scope on
BlockEndAll(st) == putTable(Remaining(st), st[Len(st)])

\* visitBlockStatement, line 202: symbolTable.put(symbolTable.popScope())
BlockEndAllowed(st) == putTableAllowed(Remaining(st), popScopeOw(st))
BlockEnd(st) == putTable(Remaining(st), popScopeOw(st))

UBOutcomes == {"crash", "corrupt"}
Final == {"done", "error", "crash", "corrupt"}

Fail(e) ==
  /\ pc' = "error"
  /\ err' = e
  /\ UNCHANGED <<stack, symbolTable, nextId, nextTag, cnt, funcBlock, origBlock, execVars,
                 iters>>

\* ------------------------------------------------------------------------
\* Lowering of a function body (visitFunctionStatement, 2146-2232).  The
\* function has the parameters x:si64 and y:f64 and declares no
\* return types.  Init is the state at line 2195, inside visitBlockStatement
\* after its pushScope.
\* ------------------------------------------------------------------------
ParamScope ==
  [n \in {"x", "y"} |-> IF n = "x" THEN SymbolInfo(Param(1, "si64"), FALSE)
                        ELSE SymbolInfo(Param(2, "f64"), FALSE)]

Init ==
  /\ pc = "lower"
  /\ stack = <<SimpleFrame("func", Null, <<>>, EmptyScope)>>
  /\ symbolTable = <<ParamScope, EmptyScope>>
  /\ nextId = 1
  /\ nextTag = 1
  /\ cnt = [stmts |-> 0, loops |-> 0, parfors |-> 0, prints |-> 0, assigns |-> 0,
            blocks |-> 0]
  /\ funcBlock = <<>>
  /\ origBlock = <<>>
  /\ iters = 0
  /\ err = "none"
  /\ forLoop = Null
  /\ functionsSymbolMap = <<>>
  /\ maybeUDF = Null
  /\ idxCtx = Null
  /\ env = Null
  /\ globalSymbolTable = <<EmptyScope>>
  /\ guard = <<SimpleFrame("script", Null, <<>>, EmptyScope)>>

Lowering == pc = "lower" /\ cnt.stmts < MaxStmts

\* visitReturnStatement (2294-2299) of `return <integer literal>;`
visitReturnStatement ==
  /\ Lowering
  /\ LET c == Leaf("const", nextId, <<>>, <<"si64">>)
         r == Leaf("ret", nextId + 1, <<Res(c, 1, "si64")>>, <<>>)
     IN  stack' = Emit(<<c, r>>)
  /\ nextId' = nextId + 2
  /\ cnt' = [cnt EXCEPT !.stmts = @ + 1]
  /\ UNCHANGED <<pc, symbolTable, nextTag, funcBlock, origBlock, execVars, iters, err>>

\* visitExprStatement of `print(x);`: visitIdentifierExpr (853-865) and one
\* operation of the builtin registry
visitExprStatement ==
  /\ Lowering
  /\ cnt.prints < MaxPrints
  /\ has(symbolTable, "x")
  /\ stack' = Emit(<<Leaf("call", nextId, <<get(symbolTable, "x").value>>, <<>>)>>)
  /\ nextId' = nextId + 1
  /\ cnt' = [cnt EXCEPT !.stmts = @ + 1, !.prints = @ + 1]
  /\ UNCHANGED <<pc, symbolTable, nextTag, funcBlock, origBlock, execVars, iters, err>>

\* visitIfStatement, 404-415, of `if (<cmp>(x)) { ...`: the condition, the
\* scope of the then-branch and the scope of its block statement
visitIfStatement_then ==
  /\ Lowering
  /\ Len(stack) < MaxDepth
  /\ has(symbolTable, "x")
  /\ LET cmp == Leaf("cmp", nextId, <<get(symbolTable, "x").value>>, <<"bool">>)
     IN  stack' = Append(Emit(<<cmp>>),
                         SimpleFrame("then", Res(cmp, 1, "bool"), <<>>, EmptyScope))
  /\ symbolTable' = pushScope(pushScope(symbolTable))
  /\ nextId' = nextId + 1
  /\ cnt' = [cnt EXCEPT !.stmts = @ + 1]
  /\ UNCHANGED <<pc, nextTag, funcBlock, origBlock, execVars, iters, err>>

\* visitIfStatement, 416-425, `} else {`: the then-block is complete
visitIfStatement_else ==
  /\ pc = "lower"
  /\ Top.k = "then"
  /\ IF ~BlockEndAllowed(symbolTable) THEN Fail("readonly")
     ELSE LET st == BlockEnd(symbolTable)
          IN  /\ stack' = [stack EXCEPT ![Len(stack)] =
                             SimpleFrame("else", Top.cond, Top.ops, popScopeOw(st))]
              /\ symbolTable' = pushScope(pushScope(Remaining(st)))
              /\ UNCHANGED <<pc, nextId, nextTag, cnt, funcBlock, origBlock, execVars, iters, err>>

\* visitIfStatement, 433-452: the operands of the yield of a branch:
\* symbolTable.get(name, ow).value for the names of owUnion in order
yieldOperandsPre(st, owUnion, ow) == [q \in 1..Len(owUnion) |-> get(st, owUnion[q]).value]

yieldOperands(st, owUnion, ow) == [q \in 1..Len(owUnion) |-> getIn(st, owUnion[q], ow).value]

\* visitIfStatement, 440-451: the exception leaves the function with both
\* scopes popped and thenBlock and elseBlock destroyed
TypeAmbiguity(name, outer) ==
  /\ pc' = "error"
  /\ err' = "ambiguous " \o name
  /\ stack' = Front(stack)
  /\ symbolTable' = outer
  /\ UNCHANGED <<nextId, nextTag, cnt, funcBlock, origBlock, execVars, iters>>

\* visitIfStatement, 416/426-485, `}`: merge of the two branches
visitIfStatement ==
  /\ pc = "lower"
  /\ Top.k \in {"then", "else"}
  /\ Top.ops # <<>>
  /\ IF ~BlockEndAllowed(symbolTable) THEN Fail("readonly")
     ELSE
     LET st == BlockEnd(symbolTable)
         outer == Remaining(st)
         hasElse == Top.k = "else"
         owThen == IF hasElse THEN Top.ow ELSE popScopeOw(st)
         owElse == IF hasElse THEN popScopeOw(st) ELSE EmptyScope
         thenOps == IF hasElse THEN Top.saved ELSE Top.ops
         elseOps == IF hasElse THEN Top.ops ELSE <<>>
         owUnion == Sorted(mergeSymbols(owThen, owElse))
         resultsThen == yieldOperands(outer, owUnion, owThen)
         resultsElse == yieldOperands(outer, owUnion, owElse)
         yieldThen == Leaf("yield", nextId, resultsThen, <<>>)
         yieldElse == Leaf("yield", nextId + 1, resultsElse, <<>>)
         withElse == hasElse \/ owUnion # <<>>
         ifOp == Op("if", nextId + 2, <<Top.cond>>,
                    [q \in 1..Len(owUnion) |-> TypeOf(resultsThen[q])],
                    IF withElse THEN 2 ELSE 1,
                    Append(thenOps, yieldThen),
                    IF withElse THEN Append(elseOps, yieldElse) ELSE <<>>)
         ambiguous == {q \in 1..Len(owUnion) :
                         ~equalUnknownAware(TypeOf(resultsThen[q]), TypeOf(resultsElse[q]))}
     IN  IF ambiguous # {}
         THEN TypeAmbiguity(getSymbol(outer, resultsThen[Min(ambiguous)], owThen), outer)
         ELSE IF ~putSeqAllowed(outer, owUnion) THEN Fail("readonly")
         ELSE /\ stack' = [Front(stack) EXCEPT ![Len(stack) - 1].ops = Append(@, ifOp)]
              /\ symbolTable' = putSeq(outer, owUnion, Results(ifOp), 1)
              /\ nextId' = nextId + 3
              /\ UNCHANGED <<pc, nextTag, cnt, funcBlock, origBlock, execVars, iters, err>>

OpenLoop == Lowering /\ Len(stack) < MaxDepth /\ cnt.loops < MaxLoops

\* visitWhileStatement, 489-497 and 523-528, of `while (<cmp>(x)) { ...`
visitWhileStatement_body ==
  /\ OpenLoop
  /\ has(symbolTable, "x")
  /\ LET cmp == Leaf("cmp", nextId, <<get(symbolTable, "x").value>>, <<"bool">>)
     IN  stack' = Append(stack, SimpleFrame("while", Res(cmp, 1, "bool"), <<cmp>>, EmptyScope))
  /\ symbolTable' = pushScope(pushScope(symbolTable))
  /\ nextId' = nextId + 1
  /\ cnt' = [cnt EXCEPT !.stmts = @ + 1, !.loops = @ + 1]
  /\ UNCHANGED <<pc, nextTag, funcBlock, origBlock, execVars, iters, err>>

\* visitWhileStatement, 489-513, of `do { ...`
visitWhileStatement_do ==
  /\ OpenLoop
  /\ stack' = Append(stack, SimpleFrame("dowhile", Null, <<>>, EmptyScope))
  /\ symbolTable' = pushScope(pushScope(pushScope(symbolTable)))
  /\ cnt' = [cnt EXCEPT !.stmts = @ + 1, !.loops = @ + 1]
  /\ UNCHANGED <<pc, nextId, nextTag, funcBlock, origBlock, execVars, iters, err>>

\* a ConditionOp that hands on the values of the body in either kind of loop
conditionArgsOfBody(isDoWhile, owVals, beforeArgs) == owVals

\* visitWhileStatement, 555-558: the values the ConditionOp hands on
conditionArgs(isDoWhile, owVals, beforeArgs) == IF isDoWhile THEN owVals ELSE beforeArgs

\* visitWhileStatement, 529-591 (while) and 514-521, 532-591 (do-while,
\* `} while (<cmp>(v));`, the condition reads the variable v)
WhileStatement(v) ==
  /\ pc = "lower"
  /\ Top.k \in {"while", "dowhile"}
  /\ Top.ops # <<>>
  /\ IF ~BlockEndAllowed(symbolTable) THEN Fail("readonly")
     ELSE
     LET isDoWhile == Top.k = "dowhile"
         st == BlockEnd(symbolTable)
         ow == popScopeOw(st)
         \* do-while: the body's updates are put into the scope of the condition
         condScope == putTable(Remaining(st), ow)
         outer == IF isDoWhile THEN Remaining(Remaining(st)) ELSE Remaining(st)
         cmp == Leaf("cmp", nextId, <<get(condScope, v).value>>, <<"bool">>)
         cond == IF isDoWhile THEN Res(cmp, 1, "bool") ELSE Top.cond
         names == Sorted(DOMAIN ow)
         owVals == [q \in 1..Len(names) |-> ow[names[q]].value]
         resultTypes == Types(owVals)
         whileOperands == [q \in 1..Len(names) |-> get(outer, names[q]).value]
         id == nextId + 3
         beforeArgs == Args("arg1", id, resultTypes)
         afterArgs == Args("arg2", id, resultTypes)
         conditionOp == Leaf("condition", nextId + 1,
                             <<cond>> \o conditionArgs(isDoWhile, owVals, beforeArgs), <<>>)
         yieldOp == Leaf("yield", nextId + 2, IF isDoWhile THEN afterArgs ELSE owVals, <<>>)
         beforeBlock == IF isDoWhile THEN Top.ops \o <<cmp, conditionOp>>
                        ELSE Append(Top.saved, conditionOp)
         afterBlock == IF isDoWhile THEN <<yieldOp>> ELSE Append(Top.ops, yieldOp)
         whileOp == Op("while", id, whileOperands, resultTypes, 2,
                       ReplaceUsesSeq(beforeBlock, whileOperands, beforeArgs, 1),
                       ReplaceUsesSeq(afterBlock, whileOperands, afterArgs, 1))
     IN  IF isDoWhile /\ ~has(condScope, v) THEN Fail("unbound")
         ELSE IF ~putSeqAllowed(outer, names) THEN Fail("readonly")
         ELSE /\ stack' = [Front(stack) EXCEPT ![Len(stack) - 1].ops = Append(@, whileOp)]
              /\ symbolTable' = putSeq(outer, names, Results(whileOp), 1)
              /\ nextId' = nextId + 4
              /\ UNCHANGED <<pc, nextTag, cnt, funcBlock, origBlock, execVars, iters, err>>

visitWhileStatement == WhileStatement("x")

\* visitForStatement, 595-652, of `for (i in <literal>:<literal>) { ...`:
\* from, to, the derived step (which is the direction), the compensated
\* bounds, the placeholder and the read-only induction variable
visitForStatement_body ==
  /\ OpenLoop
  /\ LET t == "si64"
         E(k, n, opnds, ty) == Leaf(k, nextId + n, opnds, <<ty>>)
         R(op) == Res(op, 1, op.rty[1])
         from == E("const", 0, <<>>, t)
         to == E("const", 1, <<>>, t)
         minus1 == E("const", 2, <<>>, t)
         two == E("const", 3, <<>>, t)
         ge == E("ewGe", 4, <<R(to), R(from)>>, t)
         mul == E("ewMul", 5, <<R(two), R(ge)>>, t)
         step == E("ewAdd", 6, <<R(minus1), R(mul)>>, t)
         direction == R(step)
         to1 == E("ewAdd", 7, <<R(to), direction>>, t)
         from2 == E("ewMul", 8, <<R(from), direction>>, t)
         to2 == E("ewMul", 9, <<R(to1), direction>>, t)
         step2 == E("ewMul", 10, <<R(step), direction>>, t)
         fromIdx == E("cast", 11, <<R(from2)>>, "index")
         toIdx == E("cast", 12, <<R(to2)>>, "index")
         stepIdx == E("cast", 13, <<R(step2)>>, "index")
         ph == E("const", 14, <<>>, "index")
         phCast == E("cast", 15, <<R(ph)>>, t)
         iv == E("ewMul", 16, <<R(phCast), direction>>, t)
     IN  /\ stack' = Append(Emit(<<from, to, minus1, two, ge, mul, step, to1, from2, to2,
                                   step2, fromIdx, toIdx, stepIdx>>),
                            Frame("for", <<ph, phCast, iv>>, Null, <<>>, EmptyScope, "i",
                                  <<R(fromIdx), R(toIdx), R(stepIdx), R(ph)>>))
         /\ symbolTable' = pushScope(put(pushScope(symbolTable), "i", SymbolInfo(R(iv), TRUE)))
  /\ nextId' = nextId + 17
  /\ cnt' = [cnt EXCEPT !.stmts = @ + 1, !.loops = @ + 1]
  /\ UNCHANGED <<pc, nextTag, funcBlock, origBlock, execVars, iters, err>>

\* visitForStatement, 654-696
visitForStatement ==
  /\ pc = "lower"
  /\ Top.k = "for"
  /\ Len(Top.ops) > 3
  /\ IF ~BlockEndAllowed(symbolTable) THEN Fail("readonly")
     ELSE
     LET st == BlockEnd(symbolTable)
         ow == popScopeOw(st)
         outer == Remaining(st)
         names == Sorted(DOMAIN ow)
         resVals == [q \in 1..Len(names) |-> ow[names[q]].value]
         forOperands == [q \in 1..Len(names) |-> get(outer, names[q]).value]
         id == nextId + 1
         yieldOp == Leaf("yield", nextId, resVals, <<>>)
         \* block arguments: the induction variable, then the iter_args
         blockArgs == Args("arg1", id, <<"index">> \o Types(forOperands))
         bodyBlock == ReplaceUsesSeq(ReplaceUses(Append(Top.ops, yieldOp), Top.aux[4], blockArgs[1]),
                                     forOperands, Tail(blockArgs), 1)
         forOp == Op("for", id, SubSeq(Top.aux, 1, 3) \o forOperands, Types(forOperands),
                     1, bodyBlock, <<>>)
     IN  IF ~putSeqAllowed(outer, names) THEN Fail("readonly")
         ELSE /\ stack' = [Front(stack) EXCEPT ![Len(stack) - 1].ops = Append(@, forOp)]
              /\ symbolTable' = putSeq(outer, names, Results(forOp), 1)
              /\ nextId' = nextId + 2
              /\ UNCHANGED <<pc, nextTag, cnt, funcBlock, origBlock, execVars, iters, err>>

\* visitParForStatement, 700-728, of `parfor (i in <literal>:<literal>) { ...`
\* and, with a step, of `parfor (i in <literal>:<literal>:<literal>) { ...`;
\* the step that was left out is the ConstantOp of 1 ("const 1")
ParForStatement_body(hasStep) ==
  /\ Lowering
  /\ Len(stack) < MaxDepth
  /\ cnt.parfors < MaxParFor
  /\ LET t == "si64"
         from == Leaf("const", nextId, <<>>, <<t>>)
         to == Leaf("const", nextId + 1, <<>>, <<t>>)
         step == Leaf(IF hasStep THEN "const" ELSE "const 1", nextId + 2, <<>>, <<t>>)
         \* the argument of the temporary bodyBlock
         ivPH == Val("ph", nextId + 3, NoTag, 1, "index")
     IN  /\ stack' = Append(Emit(<<from, to, step>>),
                            Frame("parfor", <<>>, Null, <<>>, EmptyScope, "i",
                                  <<Res(from, 1, t), Res(to, 1, t), Res(step, 1, t), ivPH>>))
         /\ symbolTable' = pushScope(put(pushScope(symbolTable), "i", SymbolInfo(ivPH, FALSE)))
  /\ nextId' = nextId + 4
  /\ cnt' = [cnt EXCEPT !.stmts = @ + 1, !.parfors = @ + 1]
  /\ UNCHANGED <<pc, nextTag, funcBlock, origBlock, execVars, iters, err>>

visitParForStatement_body == ParForStatement_body(FALSE)

\* a body block that ends in a YieldOp
parforYield(id, resVals) == Leaf("yield", id, resVals, <<>>)

\* visitParForStatement, 759-760: the terminator of the body block
parforTerminator(id, resVals) == Leaf("ret", id, resVals, <<>>)

\* visitParForStatement, 740-757: the operands of the parfor are the
\* overwritten variables, then the operands of the operations of bodyBlock,
\* in order and once each, that are not among them and are defined outside
\* bodyBlock
Captured(bodyBlock, forOperands, ivPH) ==
  LET pos == UNION {{<<j, o>> : o \in 1..Len(bodyBlock[j].opnds)} : j \in 1..Len(bodyBlock)}
      Before(p, q) == p[1] < q[1] \/ (p[1] = q[1] /\ p[2] < q[2])
      at(p) == bodyBlock[p[1]].opnds[p[2]]
      inBody(v) == v = ivPH
                   \/ (v[1] = "res"
                       /\ \E d \in 1..Len(bodyBlock) : OpKey(bodyBlock[d]) = <<v[2], v[3]>>)
      new == {p \in pos : /\ ~inBody(at(p))
                          /\ \A q \in 1..Len(forOperands) : forOperands[q] # at(p)
                          /\ \A p2 \in pos : Before(p2, p) => at(p2) # at(p)}
      nth(k) == CHOOSE p \in new : Cardinality({p2 \in new : Before(p2, p)}) = k - 1
  IN  forOperands \o [k \in 1..Cardinality(new) |-> at(nth(k))]

\* visitParForStatement, 730-794
visitParForStatement ==
  /\ pc = "lower"
  /\ Top.k = "parfor"
  /\ IF ~BlockEndAllowed(symbolTable) THEN Fail("readonly")
     ELSE
     LET st == BlockEnd(symbolTable)
         ow == popScopeOw(st)
         outer == Remaining(st)
         names == Sorted(DOMAIN ow)
         resVals == [q \in 1..Len(names) |-> ow[names[q]].value]
         forOperands == Captured(Top.ops, [q \in 1..Len(names) |-> get(outer, names[q]).value],
                                 Top.aux[4])
         id == nextId + 1
         returnOp == parforTerminator(nextId, resVals)
         \* block arguments: the induction variable, then one per operand
         blockArgs == Args("arg1", id, <<"index">> \o Types(forOperands))
         targetBlock == ReplaceUsesSeq(ReplaceUses(Append(Top.ops, returnOp), Top.aux[4], blockArgs[1]),
                                       forOperands, Tail(blockArgs), 1)
         parforOp == Op("parfor", id, forOperands \o SubSeq(Top.aux, 1, 3), Types(resVals),
                        1, targetBlock, <<>>)
     IN  IF ~putSeqAllowed(outer, names) THEN Fail("readonly")
         ELSE /\ stack' = [Front(stack) EXCEPT ![Len(stack) - 1].ops = Append(@, parforOp)]
              /\ symbolTable' = putSeq(outer, names, Results(parforOp), 1)
              /\ nextId' = nextId + 2
              /\ UNCHANGED <<pc, nextTag, cnt, funcBlock, origBlock, execVars, iters, err>>

\* visitFunctionStatement, 2195-2197: the end of the body's block statement
\* and the call of rectifyEarlyReturns (2105-2107: nothing to do for an
\* empty block)
visitFunctionStatement_body ==
  /\ pc = "lower"
  /\ Len(stack) = 1
  /\ IF ~BlockEndAllowed(symbolTable) THEN Fail("readonly")
     ELSE /\ symbolTable' = BlockEnd(symbolTable)
          /\ funcBlock' = Top.ops
          /\ origBlock' = Top.ops
          /\ pc' = IF Top.ops = <<>> THEN "finish" ELSE "rectify"
          /\ UNCHANGED <<stack, nextId, nextTag, cnt, iters, err, execVars>>

\* rectifyEarlyReturns: a pass of the loop that ends without a rewriting
LoopEnd(next, e, body) == [next |-> next, err |-> e, body |-> body, tags |-> 0, applied |-> 0]

\* rectifyEarlyReturns, 2130-2132: what follows the call of rectifyEarlyReturn
\* with the result r; goOn is where the loop goes behind it
Applied(body, r, goOn) ==
  IF r.st = "ub" THEN LoopEnd(UBOutcomes, "undefined", body)
  ELSE IF r.st = "error" THEN LoopEnd({"error"}, "early return", body)
  ELSE [next |-> {goOn}, err |-> "none", body |-> r.body, tags |-> r.tags, applied |-> 1]

\* a loop of rectifyEarlyReturns that breaks behind its first application
LoopPassOnce(body, id0, tag0) ==
  LET paths == WalkReturns(body, <<>>, 1)
      mostNestedReturn == MostNested(paths)
      pre == SubSeq(mostNestedReturn, 1, Len(mostNestedReturn) - 2)
      i == mostNestedReturn[Len(mostNestedReturn) - 1][1]
      parentOp == BlockAt(body, pre)[i]
  IN  IF paths = <<>> \/ mostNestedReturn = << <<Len(body), 0>> >>
      THEN LoopEnd({"finish"}, "none", body)
      ELSE IF Len(mostNestedReturn) = 1 THEN LoopEnd(UBOutcomes, "null parentOp", body)
      ELSE IF parentOp.k = "parfor" THEN LoopEnd({"finish"}, "none", body)
      ELSE IF parentOp.k # "if" THEN LoopEnd({"error"}, "early return in loop", body)
      ELSE Applied(body, rectifyEarlyReturn(body, pre, i, id0, tag0), "finish")

\* rectifyEarlyReturns, 2108-2143: one pass of its loop over the body.
\* next holds the ways the pass can end: the loop goes on ("rectify"),
\* breaks ("finish"), throws ("error"), or casts the null parent of an
\* operation of the detached funcBlock (UBOutcomes).
LoopPass(body, id0, tag0) ==
  LET paths == WalkReturns(body, <<>>, 1)
      mostNestedReturn == MostNested(paths)
      pre == SubSeq(mostNestedReturn, 1, Len(mostNestedReturn) - 2)
      i == mostNestedReturn[Len(mostNestedReturn) - 1][1]
      parentOp == BlockAt(body, pre)[i]
  IN  IF paths = <<>> \/ mostNestedReturn = << <<Len(body), 0>> >>
      THEN LoopEnd({"finish"}, "none", body)
      ELSE IF Len(mostNestedReturn) = 1 THEN LoopEnd(UBOutcomes, "null parentOp", body)
      ELSE IF parentOp.k = "parfor" THEN LoopEnd({"finish"}, "none", body)
      ELSE IF parentOp.k # "if" THEN LoopEnd({"error"}, "early return in loop", body)
      ELSE Applied(body, rectifyEarlyReturn(body, pre, i, id0, tag0), "rectify")

rectifyEarlyReturns ==
  /\ pc = "rectify"
  /\ iters < MaxIters
  /\ \E s \in {LoopPass(funcBlock, nextId, nextTag)} :
         /\ pc' \in s.next
         /\ err' = (IF s.err = "none" THEN err ELSE s.err)
         /\ funcBlock' = s.body
         /\ nextId' = nextId + 4 * s.applied
         /\ nextTag' = nextTag + s.tags
         /\ iters' = iters + s.applied
         /\ UNCHANGED <<stack, symbolTable, cnt, origBlock, execVars>>

\* visitFunctionStatement, 2199-2232: the function gets a ReturnOp when its
\* block does not end in a terminator, and is sealed; the symbol table of
\* the script is back (2230) and so is its insertion point (the
\* InsertionGuard of 2193)
visitFunctionStatement ==
  /\ pc = "finish"
  /\ funcBlock' = IF funcBlock = <<>> \/ Last(funcBlock).k # "ret"
                  THEN Append(funcBlock, Leaf("ret", nextId, <<>>, <<>>))
                  ELSE funcBlock
  /\ nextId' = nextId + 1
  /\ symbolTable' = globalSymbolTable
  /\ stack' = guard
  /\ pc' = "done"
  /\ UNCHANGED <<nextTag, cnt, origBlock, execVars, iters, err>>

NextRect ==
  \/ visitReturnStatement
  \/ visitExprStatement
  \/ visitIfStatement_then
  \/ visitIfStatement_else
  \/ visitIfStatement
  \/ visitWhileStatement_body
  \/ visitWhileStatement_do
  \/ visitWhileStatement
  \/ visitForStatement_body
  \/ visitForStatement
  \/ visitParForStatement_body
  \/ visitParForStatement
  \/ visitFunctionStatement_body
  \/ rectifyEarlyReturns
  \/ visitFunctionStatement

SpecRect == Init /\ [][NextRect]_vars

\* ------------------------------------------------------------------------
\* Lowering of assignments and block statements
\* ------------------------------------------------------------------------
\* the value is handed on as it is, bound to a name or not
renameNever(st, v, id) == [ops |-> <<>>, value |-> v]

\* renameIf, 54-59: a value that is bound to a name gets a RenameOp
renameIf(st, v, id) ==
  IF hasValue(st, v)
  THEN [ops |-> <<Leaf("rename", id, <<v>>, <<TypeOf(v)>>)>>,
        value |-> Val("res", id, NoTag, 1, TypeOf(v))]
  ELSE [ops |-> <<>>, value |-> v]

\* visitAssignStatement (367-379) with handleAssignmentPart (61-104) of
\*   var = 1;  var = y;  var = f();  var[0, ] = 1;  var[0, ] = y;
\* src is "lit", "y" or "call"; idx: the assignment is left-indexed
AssignStatement(var, src, idx) ==
  LET \* visit(ctx->expr()): visitLiteral or visitIdentifierExpr (853-865)
      \* or visitCallExpr (1045-1064) of a function of unknown result type
      lit == IF src = "call" THEN Leaf("call", nextId, <<>>, <<"unknown">>)
             ELSE Leaf("const", nextId, <<>>, <<"si64">>)
      rhsOps == IF src \in {"lit", "call"} THEN <<lit>> ELSE <<>>
      val == IF src \in {"lit", "call"} THEN Res(lit, 1, lit.rty[1])
             ELSE get(symbolTable, "y").value
      id1 == nextId + Len(rhsOps)
      \* left indexing by the row 0 (68-101, applyLeftIndexing 146-187)
      obj == get(symbolTable, var).value
      row == Leaf("const", id1, <<>>, <<"si64">>)
      one == Leaf("const", id1 + 1, <<>>, <<"si64">>)
      add == Leaf("ewAdd", id1 + 2, <<Res(row, 1, "si64"), Res(one, 1, "si64")>>, <<"ui64">>)
      cast == Leaf("cast", id1 + 3, <<Res(add, 1, "ui64")>>, <<"si64">>)
      ins == Leaf("insertRow", id1 + 4,
                  <<obj, val, Res(row, 1, "si64"), Res(cast, 1, "si64")>>, <<TypeOf(obj)>>)
      renamed == renameIf(symbolTable, val, id1)
      ops == rhsOps \o (IF idx THEN <<row, one, add, cast, ins>> ELSE renamed.ops)
      bound == IF idx THEN Res(ins, 1, TypeOf(obj)) ELSE renamed.value
      Throw(e) == /\ pc' = "error"
                  /\ err' = e
                  /\ stack' = Emit(rhsOps)
                  /\ nextId' = id1
                  /\ UNCHANGED <<symbolTable, cnt>>
  IN  /\ Lowering
      /\ cnt.assigns < MaxAssigns
      /\ IF has(symbolTable, var) /\ get(symbolTable, var).isReadOnly
         THEN Throw("readonly")
         ELSE IF idx /\ ~has(symbolTable, var) THEN Throw("left indexing before assignment")
         ELSE IF ~putAllowed(symbolTable, var) THEN Throw("readonly")
         ELSE /\ stack' = Emit(ops)
              /\ symbolTable' = put(symbolTable, var, SymbolInfo(bound, FALSE))
              /\ nextId' = nextId + Len(ops)
              /\ cnt' = [cnt EXCEPT !.stmts = @ + 1, !.assigns = @ + 1]
              /\ UNCHANGED <<pc, err>>
      /\ UNCHANGED <<nextTag, funcBlock, origBlock, execVars, iters>>

\* the assignments of the modelled scripts:
\*   x = 1;  y = y;  i = 1;  i[0, ] = 1;
AssignForms ==
  {<<"x", "lit", FALSE>>, <<"y", "y", FALSE>>, <<"i", "lit", FALSE>>, <<"i", "lit", TRUE>>}

visitAssignStatement == \E a \in AssignForms : AssignStatement(a[1], a[2], a[3])

\* visitBlockStatement, 199-200, `{`
visitBlockStatement_body ==
  /\ Lowering
  /\ Len(stack) < MaxDepth
  /\ cnt.blocks < MaxBlocks
  /\ stack' = Append(stack, SimpleFrame("block", Null, <<>>, EmptyScope))
  /\ symbolTable' = pushScope(symbolTable)
  /\ cnt' = [cnt EXCEPT !.stmts = @ + 1, !.blocks = @ + 1]
  /\ UNCHANGED <<pc, nextId, nextTag, funcBlock, origBlock, execVars, iters, err>>

\* visitBlockStatement, 201-203, `}`: the operations of the block are
\* operations of the enclosing block
visitBlockStatement ==
  /\ pc = "lower"
  /\ Top.k = "block"
  /\ IF ~BlockEndAllowed(symbolTable) THEN Fail("readonly")
     ELSE /\ stack' = [Front(stack) EXCEPT ![Len(stack) - 1].ops = @ \o Top.ops]
          /\ symbolTable' = BlockEnd(symbolTable)
          /\ UNCHANGED <<pc, nextId, nextTag, cnt, funcBlock, origBlock, execVars, iters, err>>

NextLower ==
  \/ visitAssignStatement
  \/ visitBlockStatement_body
  \/ visitBlockStatement
  \/ visitIfStatement_then
  \/ visitIfStatement_else
  \/ visitIfStatement
  \/ visitForStatement_body
  \/ visitForStatement
  \/ visitParForStatement_body
  \/ visitParForStatement

SpecLower == Init /\ [][NextLower]_vars

\* ------------------------------------------------------------------------
\* Conditionals over assignments that change the type of a variable:
\*   x = 1;  x = y;  x = f();  y = 1;  y = f();
\* (si64, f64 and Unknown for x, which is si64 at first; si64 and Unknown
\* for y, which is f64 at first)
\* ------------------------------------------------------------------------
MergeForms ==
  {<<"x", "lit">>, <<"x", "y">>, <<"x", "call">>, <<"y", "lit">>, <<"y", "call">>}

visitAssignStatement_types == \E a \in MergeForms : AssignStatement(a[1], a[2], FALSE)

NextMerge ==
  \/ visitAssignStatement_types
  \/ visitIfStatement_then
  \/ visitIfStatement_else
  \/ visitIfStatement

SpecMerge == Init /\ [][NextMerge]_vars

\* ------------------------------------------------------------------------
\* Loops over assignments.  The condition of a do-while loop reads x or i:
\*   do { ... } while (<cmp>(x));   do { ... } while (<cmp>(i));
\* ------------------------------------------------------------------------
CondVars == {"x", "i"}

visitWhileStatement_cond == \E v \in CondVars : WhileStatement(v)

NextLoop ==
  \/ visitAssignStatement
  \/ visitIfStatement_then
  \/ visitIfStatement_else
  \/ visitIfStatement
  \/ visitWhileStatement_body
  \/ visitWhileStatement_do
  \/ visitWhileStatement_cond
  \/ visitForStatement_body
  \/ visitForStatement

SpecLoop == Init /\ [][NextLoop]_vars

\* ------------------------------------------------------------------------
\* Parallel for loops with and without a step
\* ------------------------------------------------------------------------
visitParForStatement_step == \E hasStep \in BOOLEAN : ParForStatement_body(hasStep)

NextParFor ==
  \/ visitAssignStatement
  \/ visitExprStatement
  \/ visitIfStatement_then
  \/ visitIfStatement_else
  \/ visitIfStatement
  \/ visitParForStatement_step
  \/ visitParForStatement

SpecParFor == Init /\ [][NextParFor]_vars

\* ------------------------------------------------------------------------
\* Loops of every kind over assignments, prints and conditionals
\* ------------------------------------------------------------------------
NextUses ==
  \/ visitAssignStatement
  \/ visitExprStatement
  \/ visitIfStatement_then
  \/ visitIfStatement_else
  \/ visitIfStatement
  \/ visitWhileStatement_body
  \/ visitWhileStatement_do
  \/ visitWhileStatement
  \/ visitForStatement_body
  \/ visitForStatement
  \/ visitParForStatement_body
  \/ visitParForStatement

SpecUses == Init /\ [][NextUses]_vars

\* ------------------------------------------------------------------------
\* Assignments of a value that a name is bound to
\* ------------------------------------------------------------------------
\* the targets of  x = y;  i = y;
AliasTargets == {"x", "i"}

\* visitAssignStatement (367-379), handleAssignmentPart 64-66, 102-103
visitAssignStatement_alias == \E var \in AliasTargets : AssignStatement(var, "y", FALSE)

\* visitAssignStatement (367-379) of  x[, ] = y;  handleAssignmentPart
\* 64-75, 97-101: neither rows nor columns are given
visitAssignStatement_empty ==
  LET val == get(symbolTable, "y").value
      renamed == renameIf(symbolTable, val, nextId)
  IN  /\ Lowering
      /\ cnt.assigns < MaxAssigns
      /\ IF has(symbolTable, "x") /\ get(symbolTable, "x").isReadOnly THEN Fail("readonly")
         ELSE IF ~has(symbolTable, "x") THEN Fail("left indexing before assignment")
         ELSE IF ~putAllowed(symbolTable, "x") THEN Fail("readonly")
         ELSE /\ stack' = Emit(renamed.ops)
              /\ symbolTable' = put(symbolTable, "x", SymbolInfo(renamed.value, FALSE))
              /\ nextId' = nextId + Len(renamed.ops)
              /\ cnt' = [cnt EXCEPT !.stmts = @ + 1, !.assigns = @ + 1]
              /\ UNCHANGED <<pc, err, nextTag, funcBlock, origBlock, execVars, iters>>

NextAlias ==
  \/ visitAssignStatement
  \/ visitAssignStatement_alias
  \/ visitAssignStatement_empty
  \/ visitBlockStatement_body
  \/ visitBlockStatement
  \/ visitIfStatement_then
  \/ visitIfStatement_else
  \/ visitIfStatement
  \/ visitWhileStatement_body
  \/ visitWhileStatement_do
  \/ visitWhileStatement
  \/ visitForStatement_body
  \/ visitForStatement
  \/ visitParForStatement_body
  \/ visitParForStatement

SpecAlias == Init /\ [][NextAlias]_vars

\* ------------------------------------------------------------------------
\* A script with a function definition:  statements of the script, then
\*   def f(x:si64, y:f64) { ... }
\* ------------------------------------------------------------------------
\* the visitor at the start of the script; ScopedSymbolTable() has one
\* scope
InitScript ==
  /\ pc = "script"
  /\ stack = <<SimpleFrame("script", Null, <<>>, EmptyScope)>>
  /\ symbolTable = <<EmptyScope>>
  /\ nextId = 1
  /\ nextTag = 1
  /\ cnt = [stmts |-> 0, loops |-> 0, parfors |-> 0, prints |-> 0, assigns |-> 0,
            blocks |-> 0]
  /\ funcBlock = <<>>
  /\ origBlock = <<>>
  /\ iters = 0
  /\ err = "none"
  /\ forLoop = Null
  /\ functionsSymbolMap = <<>>
  /\ maybeUDF = Null
  /\ idxCtx = Null
  /\ env = Null
  /\ globalSymbolTable = Null
  /\ guard = Null

ScriptUnchanged ==
  UNCHANGED <<nextTag, funcBlock, origBlock, iters, forLoop, functionsSymbolMap, maybeUDF,
              idxCtx, env>>

\* visitAssignStatement (367-379) of  i = 1;  in the script
visitAssignStatement_script ==
  /\ pc = "script"
  /\ cnt.assigns < MaxAssigns
  /\ stack' = Emit(<<Leaf("const", nextId, <<>>, <<"si64">>)>>)
  /\ symbolTable' = put(symbolTable, "i", SymbolInfo(Val("res", nextId, NoTag, 1, "si64"), FALSE))
  /\ nextId' = nextId + 1
  /\ cnt' = [cnt EXCEPT !.assigns = @ + 1]
  /\ UNCHANGED <<pc, err, globalSymbolTable, guard>>
  /\ ScriptUnchanged

\* visitBlockStatement, 199-200, `{` in the script
visitBlockStatement_script ==
  /\ pc = "script"
  /\ cnt.blocks < MaxBlocks
  /\ stack' = Append(stack, SimpleFrame("block", Null, <<>>, EmptyScope))
  /\ symbolTable' = pushScope(symbolTable)
  /\ cnt' = [cnt EXCEPT !.blocks = @ + 1]
  /\ UNCHANGED <<pc, err, nextId, globalSymbolTable, guard>>
  /\ ScriptUnchanged

\* visitBlockStatement, 201-203, `}` in the script
visitBlockStatement_end ==
  /\ pc = "script"
  /\ Top.k = "block"
  /\ stack' = [Front(stack) EXCEPT ![Len(stack) - 1].ops = @ \o Top.ops]
  /\ symbolTable' = BlockEnd(symbolTable)
  /\ UNCHANGED <<pc, err, nextId, cnt, globalSymbolTable, guard>>
  /\ ScriptUnchanged

\* a table of the function that is the table of the script with the
\* parameters bound in it
ParamTableOver(global) ==
  put(put(global, "x", SymbolInfo(Param(1, "si64"), FALSE)),
      "y", SymbolInfo(Param(2, "f64"), FALSE))

\* visitFunctionStatement, 2152 and 2178-2182: symbolTable =
\* ScopedSymbolTable(), then handleAssignmentPart of every parameter
ParamTable(global) ==
  put(put(<<EmptyScope>>, "x", SymbolInfo(Param(1, "si64"), FALSE)),
      "y", SymbolInfo(Param(2, "f64"), FALSE))

\* visitFunctionStatement, 2146-2195, `def f(x:si64, y:f64) {`: the symbol
\* table of the script is put aside, the parameters are bound in a new
\* one, and the body's block statement pushes its scope
visitFunctionStatement_args ==
  /\ pc = "script"
  /\ globalSymbolTable' = symbolTable
  /\ IF Len(symbolTable) > 1
     THEN /\ pc' = "error"
          /\ err' = "Functions can only be defined at top-level"
          /\ symbolTable' = <<EmptyScope>>
          /\ UNCHANGED <<stack, guard>>
     ELSE /\ pc' = "lower"
          /\ guard' = stack
          /\ stack' = <<SimpleFrame("func", Null, <<>>, EmptyScope)>>
          /\ symbolTable' = pushScope(ParamTable(symbolTable))
          /\ UNCHANGED err
  /\ UNCHANGED <<nextId, cnt>>
  /\ ScriptUnchanged

\* visitExprStatement of `print(i);`: visitIdentifierExpr (853-865) and one
\* operation of the builtin registry
visitIdentifierExpr ==
  /\ Lowering
  /\ cnt.prints < MaxPrints
  /\ IF ~has(symbolTable, "i") THEN Fail("referenced before assignment")
     ELSE /\ stack' = Emit(<<Leaf("call", nextId, <<get(symbolTable, "i").value>>, <<>>)>>)
          /\ nextId' = nextId + 1
          /\ cnt' = [cnt EXCEPT !.stmts = @ + 1, !.prints = @ + 1]
          /\ UNCHANGED <<pc, symbolTable, nextTag, funcBlock, origBlock, execVars, iters, err>>

NextScript ==
  \/ visitAssignStatement_script
  \/ visitBlockStatement_script
  \/ visitBlockStatement_end
  \/ visitFunctionStatement_args
  \/ visitIdentifierExpr
  \/ visitAssignStatement
  \/ visitExprStatement
  \/ visitBlockStatement_body
  \/ visitBlockStatement
  \/ visitIfStatement_then
  \/ visitIfStatement_else
  \/ visitIfStatement
  \/ visitWhileStatement_body
  \/ visitWhileStatement_do
  \/ visitWhileStatement
  \/ visitForStatement_body
  \/ visitForStatement
  \/ visitParForStatement_body
  \/ visitParForStatement
  \/ visitFunctionStatement_body
  \/ rectifyEarlyReturns
  \/ visitFunctionStatement

SpecScript == InitScript /\ [][NextScript]_vars

\* ------------------------------------------------------------------------
\* The run of a counted for loop (visitForStatement, 597-649).  from, to
\* and step are signed integers of IntBits bits; the operations on them
\* wrap around.
\* ------------------------------------------------------------------------
MinInt == -(2 ^ (IntBits - 1))
MaxInt == 2 ^ (IntBits - 1) - 1
Ints == MinInt..MaxInt
Wrap(n) == ((n - MinInt) % (2 ^ IntBits)) + MinInt

EwGeOp(a, b) == IF a >= b THEN 1 ELSE 0
EwSignOp(a) == IF a > 0 THEN 1 ELSE IF a < 0 THEN -1 ELSE 0
EwAddOp(a, b) == Wrap(a + b)
EwMulOp(a, b) == Wrap(a * b)

\* a derived step that only looks at the order of from and to
derivedStepStrict(from, to) == EwAddOp(-1, EwMulOp(2, IF to > from THEN 1 ELSE 0))

\* 610-616: the step of a loop without a step, -1 + 2 * (to >= from)
derivedStep(from, to) == EwAddOp(-1, EwMulOp(2, EwGeOp(to, from)))

\* a direction that is always upwards
directionUp(from, to, hasStep, step) == 1

\* 605-618: the counting direction
directionOf(from, to, hasStep, step) ==
  IF hasStep THEN EwSignOp(step) ELSE derivedStep(from, to)

\* 621-631: the bounds and the step of the ForOp, and 642-647: the counter
\* starts at the lower bound
ForLoop(from, to, hasStep, given) ==
  LET step == IF hasStep THEN given ELSE derivedStep(from, to)
      direction == directionOf(from, to, hasStep, given)
      exact == {-1 + 2 * EwGeOp(to, from), to + direction, from * direction,
                EwAddOp(to, direction) * direction, step * direction}
  IN  [from |-> from, to |-> to, hasStep |-> hasStep, given |-> step,
       direction |-> direction,
       lb |-> EwMulOp(from, direction),
       ub |-> EwMulOp(EwAddOp(to, direction), direction),
       step |-> EwMulOp(step, direction),
       c |-> EwMulOp(from, direction),
       visited |-> <<>>,
       overflow |-> \E v \in exact : v \notin Ints]

\* the steps explored: none, and the given steps -MaxStep..MaxStep and MinInt
Steps == (-MaxStep..MaxStep) \cup {MinInt}

\* iterations after which a run is given up
MaxTrips == 2 ^ IntBits

InitFor ==
  /\ pc = "for"
  /\ forLoop \in {ForLoop(from, to, FALSE, 0) : from \in Ints, to \in Ints}
               \cup {ForLoop(a[1], a[2], TRUE, a[3]) : a \in Ints \X Ints \X Steps}
  /\ stack = <<>>
  /\ symbolTable = <<>>
  /\ nextId = 1
  /\ nextTag = 1
  /\ cnt = [stmts |-> 0, loops |-> 0, parfors |-> 0, prints |-> 0, assigns |-> 0,
            blocks |-> 0]
  /\ funcBlock = <<>>
  /\ origBlock = <<>>
  /\ iters = 0
  /\ err = "none"
  /\ functionsSymbolMap = <<>>
  /\ maybeUDF = Null
  /\ idxCtx = Null
  /\ env = Null
  /\ globalSymbolTable = Null
  /\ guard = Null

ForUnchanged ==
  UNCHANGED <<stack, symbolTable, nextId, nextTag, cnt, funcBlock, origBlock, iters, err,
              functionsSymbolMap, idxCtx, maybeUDF, env, globalSymbolTable, guard>>

\* one run of the body of the ForOp: the counter is below the upper
\* bound; the induction variable of the script is counter * direction (647)
forBody ==
  /\ pc = "for"
  /\ forLoop.step > 0
  /\ forLoop.c < forLoop.ub
  /\ Len(forLoop.visited) < MaxTrips
  /\ forLoop' = [forLoop EXCEPT
                   !.visited = Append(@, EwMulOp(forLoop.c, forLoop.direction)),
                   !.c = Wrap(@ + forLoop.step),
                   !.overflow = @ \/ forLoop.c + forLoop.step \notin Ints
                                  \/ forLoop.c * forLoop.direction \notin Ints]
  /\ pc' = pc
  /\ ForUnchanged

\* the ForOp ends: the counter has reached the upper bound
forExit ==
  /\ pc = "for"
  /\ forLoop.step > 0
  /\ forLoop.c >= forLoop.ub
  /\ pc' = "exit"
  /\ UNCHANGED forLoop
  /\ ForUnchanged

\* a ForOp whose step is not positive, or a signed operation that has
\* overflowed, has no defined behaviour
forUndefined ==
  /\ pc = "for"
  /\ forLoop.step <= 0 \/ forLoop.overflow
  /\ pc' \in UBOutcomes
  /\ UNCHANGED forLoop
  /\ ForUnchanged

NextFor == forBody \/ forExit \/ forUndefined

SpecFor == InitFor /\ [][NextFor]_vars

\* ------------------------------------------------------------------------
\* Left indexing  var[rows, cols] = 1;  (handleAssignmentPart 61-104,
\* applyRightIndexing 106-144, applyLeftIndexing 146-187, visitIndexing and
\* visitRange 1807-1824).  The positions of an axis are written
\*   "none" (no positions), "scalar", "object" (a matrix of positions),
\*   "string" (a label), "lo:hi", "lo:", ":hi" or ":".
\* A result is [ops, value, err]: the operations created, the value
\* returned and the message of the error thrown ("none": no error).
\* ------------------------------------------------------------------------
AxisForms == {"none", "scalar", "object", "string", "lo:hi", "lo:", ":hi", ":"}

Done(ops, value) == [ops |-> ops, value |-> value, err |-> "none"]
Thrown(ops, e) == [ops |-> ops, value |-> Null, err |-> e]

\* CompilerUtils::hasObjType
hasObjType(v) == TypeOf(v) \in {"matrix", "frame"}

\* visitRange, 1815-1824, and visitIndexing, 1807-1813, of one axis: the
\* operations of the position expressions, first (are there positions),
\* and the positions: one value v, or the pair lo, hi (Null: left out)
visitRange(form, id) ==
  IF form = "scalar"
  THEN [ops |-> <<Leaf("const", id, <<>>, <<"si64">>)>>, first |-> TRUE, single |-> TRUE,
        v |-> Val("res", id, NoTag, 1, "si64"), lo |-> Null, hi |-> Null]
  ELSE IF form = "object"
  THEN [ops |-> <<Leaf("call", id, <<>>, <<"matrix">>)>>, first |-> TRUE, single |-> TRUE,
        v |-> Val("res", id, NoTag, 1, "matrix"), lo |-> Null, hi |-> Null]
  ELSE IF form = "string"
  THEN [ops |-> <<Leaf("const", id, <<>>, <<"str">>)>>, first |-> TRUE, single |-> TRUE,
        v |-> Val("res", id, NoTag, 1, "str"), lo |-> Null, hi |-> Null]
  ELSE IF form = "lo:hi"
  THEN [ops |-> <<Leaf("const", id, <<>>, <<"si64">>), Leaf("const", id + 1, <<>>, <<"si64">>)>>,
        first |-> TRUE, single |-> FALSE, v |-> Null,
        lo |-> Val("res", id, NoTag, 1, "si64"), hi |-> Val("res", id + 1, NoTag, 1, "si64")]
  ELSE IF form = "lo:"
  THEN [ops |-> <<Leaf("const", id, <<>>, <<"si64">>)>>, first |-> TRUE, single |-> FALSE,
        v |-> Null, lo |-> Val("res", id, NoTag, 1, "si64"), hi |-> Null]
  ELSE IF form = ":hi"
  THEN [ops |-> <<Leaf("const", id, <<>>, <<"si64">>)>>, first |-> TRUE, single |-> FALSE,
        v |-> Null, lo |-> Null, hi |-> Val("res", id, NoTag, 1, "si64")]
  ELSE [ops |-> <<>>, first |-> FALSE, single |-> FALSE, v |-> Null, lo |-> Null, hi |-> Null]

\* the single position v (of type si64, which castSI64If leaves as it is)
\* and the position after it, 126-130 and 164-168: const 1, ewAdd, its
\* cast to si64; then the operation kind(arg, ins.., v, v + 1)
WidthOne(kind, operands, v, ty, id) ==
  Done(<<Leaf("const 1", id, <<>>, <<"si64">>),
         Leaf("ewAdd", id + 1, <<v, Val("res", id, NoTag, 1, "si64")>>, <<"ui64">>),
         Leaf("cast", id + 2, <<Val("res", id + 1, NoTag, 1, "ui64")>>, <<"si64">>),
         Leaf(kind, id + 3, operands \o <<v, Val("res", id + 2, NoTag, 1, "si64")>>, <<ty>>)>>,
       Val("res", id + 3, NoTag, 1, ty))

\* the lower bound of a range, 137-138 and 176-177
LowerIncl(ax, id) ==
  IF ax.lo = Null
  THEN Done(<<Leaf("const 0", id, <<>>, <<"si64">>)>>, Val("res", id, NoTag, 1, "si64"))
  ELSE Done(<<>>, ax.lo)

\* the upper bound of a range, 139-140 and 178-179, with its castSI64If
UpperExcl(numAxOp, arg, ax, id) ==
  IF ax.hi = Null
  THEN Done(<<Leaf(numAxOp, id, <<arg>>, <<"size">>),
              Leaf("cast", id + 1, <<Val("res", id, NoTag, 1, "size")>>, <<"si64">>)>>,
            Val("res", id + 1, NoTag, 1, "si64"))
  ELSE Done(<<>>, ax.hi)

\* the operation kind(operands.., lo, hi) after the operations of lo, hi
RangedFrom(kind, operands, ty, lo, hi, id) ==
  Done(lo.ops \o hi.ops \o <<Leaf(kind, id, operands \o <<lo.value, hi.value>>, <<ty>>)>>,
       Val("res", id, NoTag, 1, ty))

\* the range of a pair, 132-142 and 171-182
Ranged(kind, numAxOp, operands, arg, ax, lo, id) ==
  RangedFrom(kind, operands, TypeOf(arg), lo, UpperExcl(numAxOp, arg, ax, id + Len(lo.ops)),
             id + Len(lo.ops) + Len(UpperExcl(numAxOp, arg, ax, id + Len(lo.ops)).ops))

\* a right indexing that gives the whole object
applyRightIndexingWhole(extractAxOp, sliceAxOp, numAxOp, arg, ax, allowLabel, id) ==
  Done(<<>>, arg)

\* applyRightIndexing, 106-144; the type inferred for a part of arg is
\* the type of arg
applyRightIndexing(extractAxOp, sliceAxOp, numAxOp, arg, ax, allowLabel, id) ==
  IF ax.single
  THEN IF hasObjType(ax.v)
       THEN Done(<<Leaf(extractAxOp, id, <<arg, ax.v>>, <<TypeOf(arg)>>)>>,
                 Val("res", id, NoTag, 1, TypeOf(arg)))
       ELSE IF TypeOf(ax.v) = "str"
       THEN IF allowLabel
            THEN Done(<<Leaf(extractAxOp, id, <<arg, ax.v>>, <<TypeOf(arg)>>)>>,
                      Val("res", id, NoTag, 1, TypeOf(arg)))
            ELSE Thrown(<<>>, "cannot use right indexing with label in this case")
       ELSE WidthOne(sliceAxOp, <<arg>>, ax.v, TypeOf(arg), id)
  ELSE Ranged(sliceAxOp, numAxOp, <<arg>>, arg, ax, LowerIncl(ax, id), id)

\* left indexing that accepts the positions of a data object as the
\* single position
applyLeftIndexingAny(insertAxOp, numAxOp, arg, ins, ax, allowLabel, id) ==
  IF ax.single
  THEN WidthOne(insertAxOp, <<arg, ins>>, ax.v, TypeOf(arg), id)
  ELSE Ranged(insertAxOp, numAxOp, <<arg, ins>>, arg, ax, LowerIncl(ax, id), id)

\* applyLeftIndexing, 146-187
applyLeftIndexing(insertAxOp, numAxOp, arg, ins, ax, allowLabel, id) ==
  IF ax.single
  THEN IF hasObjType(ax.v)
       THEN Thrown(<<>>, "left indexing with positions as a data object is not supported (yet)")
       ELSE IF TypeOf(ax.v) = "str"
       THEN IF allowLabel
            THEN Thrown(<<>>, "left indexing by label is not supported yet")
            ELSE Thrown(<<>>, "cannot use left indexing with label in this case")
       ELSE WidthOne(insertAxOp, <<arg, ins>>, ax.v, TypeOf(arg), id)
  ELSE Ranged(insertAxOp, numAxOp, <<arg, ins>>, arg, ax, LowerIncl(ax, id), id)

\* a step of 80-89 after the steps before it: the operations of both
After(before, step) ==
  IF before.err # "none" THEN before
  ELSE [ops |-> before.ops \o step.ops, value |-> step.value, err |-> step.err]

\* the insert of val into the columns of obj, whatever the row segment
ColsOfObj(obj, val, cols, rowSeg, id) ==
  IF rowSeg.err # "none" THEN rowSeg
  ELSE After(rowSeg, applyLeftIndexing("insertCol", "numCols", obj, val, cols,
                                       TypeOf(obj) = "frame", id + Len(rowSeg.ops)))

\* 80-89, rows and columns: the row segment, then the insert of val into
\* its columns
ColsOfRowSeg(obj, val, cols, rowSeg, id) ==
  IF rowSeg.err # "none" THEN rowSeg
  ELSE After(rowSeg, applyLeftIndexing("insertCol", "numCols", rowSeg.value, val, cols,
                                       TypeOf(obj) = "frame", id + Len(rowSeg.ops)))

\* 87-89: the insert of the row segment into the rows of obj
RowsOfObj(obj, rows, rowSeg, id) ==
  IF rowSeg.err # "none" THEN rowSeg
  ELSE After(rowSeg, applyLeftIndexing("insertRow", "numRows", obj, rowSeg.value, rows, FALSE,
                                       id + Len(rowSeg.ops)))

\* handleAssignmentPart, 75-98, after visit(idxCtx)
LeftIndexed(st, obj, val, rows, cols, id) ==
  IF rows.first /\ cols.first
  THEN RowsOfObj(obj, rows,
                 ColsOfRowSeg(obj, val, cols,
                              applyRightIndexing("extractRow", "sliceRow", "numRows", obj, rows,
                                                 FALSE, id), id), id)
  ELSE IF rows.first
  THEN applyLeftIndexing("insertRow", "numRows", obj, val, rows, FALSE, id)
  ELSE IF cols.first
  THEN applyLeftIndexing("insertCol", "numCols", obj, val, cols, TypeOf(obj) = "frame", id)
  ELSE [ops |-> renameIf(st, val, id).ops, value |-> renameIf(st, val, id).value,
        err |-> "none"]

\* visit(idxCtx), 75: the operations of the positions of both axes
Positions(st, obj, val, rows, colsForm, id) ==
  After(Done(rows.ops \o visitRange(colsForm, id + Len(rows.ops)).ops, Null),
        LeftIndexed(st, obj, val, rows, visitRange(colsForm, id + Len(rows.ops)),
                    id + Len(rows.ops) + Len(visitRange(colsForm, id + Len(rows.ops)).ops)))

\* handleAssignmentPart, 61-104, with idxCtx
handleAssignmentPart(st, var, rowsForm, colsForm, val, id) ==
  IF has(st, var) /\ get(st, var).isReadOnly
  THEN Thrown(<<>>, "trying to assign read-only variable")
  ELSE IF ~has(st, var)
  THEN Thrown(<<>>, "cannot use left indexing before a value has been assigned")
  ELSE Positions(st, get(st, var).value, val, visitRange(rowsForm, id), colsForm, id)

\* the state at line 2195 of a function with the parameter x, a matrix
\* or a frame
InitIndex ==
  /\ pc = "lower"
  /\ stack = <<SimpleFrame("func", Null, <<>>, EmptyScope)>>
  /\ \E ty \in {"matrix", "frame"} :
       symbolTable = <<[n \in {"x"} |-> SymbolInfo(Param(1, ty), FALSE)], EmptyScope>>
  /\ nextId = 1
  /\ nextTag = 1
  /\ cnt = [stmts |-> 0, loops |-> 0, parfors |-> 0, prints |-> 0, assigns |-> 0,
            blocks |-> 0]
  /\ funcBlock = <<>>
  /\ origBlock = <<>>
  /\ iters = 0
  /\ err = "none"
  /\ forLoop = Null
  /\ functionsSymbolMap = <<>>
  /\ maybeUDF = Null
  /\ idxCtx = [var |-> "", rows |-> "none", cols |-> "none"]
  /\ env = Null
  /\ globalSymbolTable = <<EmptyScope>>
  /\ guard = <<SimpleFrame("script", Null, <<>>, EmptyScope)>>

\* visitAssignStatement (367-379) of  var[rows, cols] = 1;
IndexedAssign(var, rowsForm, colsForm) ==
  /\ pc = "lower"
  /\ cnt.stmts < MaxStmts
  /\ cnt.assigns < MaxAssigns
  /\ idxCtx' = [var |-> var, rows |-> rowsForm, cols |-> colsForm]
  /\ \E r \in {handleAssignmentPart(symbolTable, var, rowsForm, colsForm,
                                     Val("res", nextId, NoTag, 1, "si64"), nextId + 1)} :
       /\ stack' = Emit(<<Leaf("const", nextId, <<>>, <<"si64">>)>> \o r.ops)
       /\ nextId' = nextId + 1 + Len(r.ops)
       /\ IF r.err # "none"
          THEN /\ pc' = "error"
               /\ err' = r.err
               /\ UNCHANGED <<symbolTable, cnt>>
          ELSE /\ symbolTable' = put(symbolTable, var, SymbolInfo(r.value, FALSE))
               /\ cnt' = [cnt EXCEPT !.stmts = @ + 1, !.assigns = @ + 1]
               /\ UNCHANGED <<pc, err>>
  /\ UNCHANGED <<nextTag, funcBlock, origBlock, forLoop, functionsSymbolMap, maybeUDF, iters,
                 env, globalSymbolTable, guard>>

visitAssignStatement_indexed ==
  \E var \in {"x", "i"}, rowsForm \in AxisForms, colsForm \in AxisForms :
    IndexedAssign(var, rowsForm, colsForm)

NextIndex == visitAssignStatement_indexed

SpecIndex == InitIndex /\ [][NextIndex]_vars

\* ------------------------------------------------------------------------
\* Right indexing  print(var[rows, cols]);  (visitRightIdxExtractExpr
\* 1221-1245 with applyRightIndexing 106-144)
\* ------------------------------------------------------------------------
\* a row step that keeps every row
RowStepNone(obj, rows, id) == Done(<<>>, obj)

\* 1230-1232: the rows of obj
RowStep(obj, rows, id) ==
  IF rows.first
  THEN applyRightIndexing("extractRow", "sliceRow", "numRows", obj, rows, FALSE, id)
  ELSE Done(<<>>, obj)

\* 1233-1235: the columns of what the row step has given
ColStep(rowStep, cols, id) ==
  IF rowStep.err # "none" \/ ~cols.first THEN rowStep
  ELSE After(rowStep, applyRightIndexing("extractCol", "sliceCol", "numCols", rowStep.value,
                                         cols, TypeOf(rowStep.value) = "frame",
                                         id + Len(rowStep.ops)))

\* 1224-1235 after the visit of the rows' positions: the positions of the
\* columns, then the two steps
RightIndexed(obj, rows, cols, id) ==
  After(Done(rows.ops \o cols.ops, Null),
        ColStep(RowStep(obj, rows, id + Len(rows.ops) + Len(cols.ops)), cols,
                id + Len(rows.ops) + Len(cols.ops)))

\* visitExprStatement of print(var[rows, cols]): visitIdentifierExpr
\* (853-865), visitRightIdxExtractExpr (1221-1245) and the operation of
\* the builtin registry that takes the result
RightIdxExtractExpr(var, rowsForm, colsForm) ==
  /\ pc = "lower"
  /\ cnt.stmts < MaxStmts
  /\ cnt.prints < MaxPrints
  /\ idxCtx' = [var |-> var, rows |-> rowsForm, cols |-> colsForm]
  /\ IF ~has(symbolTable, var)
     THEN /\ pc' = "error"
          /\ err' = "referenced before assignment"
          /\ UNCHANGED <<stack, nextId, cnt>>
     ELSE \E rows \in {visitRange(rowsForm, nextId)} :
          \E r \in {RightIndexed(get(symbolTable, var).value, rows,
                                 visitRange(colsForm, nextId + Len(rows.ops)), nextId)} :
            IF r.err # "none"
            THEN /\ pc' = "error"
                 /\ err' = r.err
                 /\ stack' = Emit(r.ops)
                 /\ nextId' = nextId + Len(r.ops)
                 /\ UNCHANGED cnt
            ELSE /\ stack' = Emit(r.ops \o <<Leaf("call", nextId + Len(r.ops), <<r.value>>, <<>>)>>)
                 /\ nextId' = nextId + Len(r.ops) + 1
                 /\ cnt' = [cnt EXCEPT !.stmts = @ + 1, !.prints = @ + 1]
                 /\ UNCHANGED <<pc, err>>
  /\ UNCHANGED <<symbolTable, nextTag, funcBlock, origBlock, forLoop, functionsSymbolMap,
                 maybeUDF, iters, env, globalSymbolTable, guard>>

visitRightIdxExtractExpr ==
  \E var \in {"x", "i"}, rowsForm \in AxisForms, colsForm \in AxisForms :
    RightIdxExtractExpr(var, rowsForm, colsForm)

SpecRead == InitIndex /\ [][visitRightIdxExtractExpr]_vars

\* ------------------------------------------------------------------------
\* Execution of the operations of indexing.  An object has nr rows, nc
\* columns and the cells d[<<r, c>>], r in 1..nr, c in 1..nc (the
\* positions of the script count from 0).  Every cell of an object that
\* the function is called with is a value of its own, <<tag, r, c>>, so
\* that the place of every cell of a result shows; f of a cell is
\* <<"f", cell>>.  The kernels are not part of the visitor.
\* ------------------------------------------------------------------------
Object(tag, nr, nc) ==
  [nr |-> nr, nc |-> nc, d |-> [p \in (1..nr) \X (1..nc) |-> <<tag, p[1], p[2]>>]]

\* SliceRowOp / SliceColOp: the rows, the columns [lo, hi)
SliceRowOp(m, lo, hi) ==
  [nr |-> hi - lo, nc |-> m.nc,
   d |-> [p \in (1..(hi - lo)) \X (1..m.nc) |-> m.d[<<p[1] + lo, p[2]>>]]]

SliceColOp(m, lo, hi) ==
  [nr |-> m.nr, nc |-> hi - lo,
   d |-> [p \in (1..m.nr) \X (1..(hi - lo)) |-> m.d[<<p[1], p[2] + lo>>]]]

\* InsertRowOp / InsertColOp: m with ins in place of the rows, the
\* columns [lo, hi)
InsertRowOp(m, ins, lo, hi) ==
  [m EXCEPT !.d = [p \in DOMAIN m.d |->
                     IF lo < p[1] /\ p[1] <= hi THEN ins.d[<<p[1] - lo, p[2]>>] ELSE m.d[p]]]

InsertColOp(m, ins, lo, hi) ==
  [m EXCEPT !.d = [p \in DOMAIN m.d |->
                     IF lo < p[2] /\ p[2] <= hi THEN ins.d[<<p[1], p[2] - lo>>] ELSE m.d[p]]]

\* the function f, cell by cell
Pointwise(m) == [m EXCEPT !.d = [p \in DOMAIN m.d |-> <<"f", m.d[p]>>]]

\* what a value is at run time: an argument of the function or the result
\* of an operation
ValueOf(v, store, args) == IF v[1] = "param" THEN args[v[4]] ELSE store[v[2]]

\* the result of one operation; lits gives the literals of the script
EvalOp(op, store, args, lits) ==
  IF op.k = "const" THEN lits[op.id]
  ELSE IF op.k = "const 0" THEN 0
  ELSE IF op.k = "const 1" THEN 1
  ELSE IF op.k = "ewAdd"
  THEN ValueOf(op.opnds[1], store, args) + ValueOf(op.opnds[2], store, args)
  ELSE IF op.k \in {"cast", "rename"} THEN ValueOf(op.opnds[1], store, args)
  ELSE IF op.k = "numRows" THEN ValueOf(op.opnds[1], store, args).nr
  ELSE IF op.k = "numCols" THEN ValueOf(op.opnds[1], store, args).nc
  ELSE IF op.k = "sliceRow"
  THEN SliceRowOp(ValueOf(op.opnds[1], store, args), ValueOf(op.opnds[2], store, args),
                  ValueOf(op.opnds[3], store, args))
  ELSE IF op.k = "sliceCol"
  THEN SliceColOp(ValueOf(op.opnds[1], store, args), ValueOf(op.opnds[2], store, args),
                  ValueOf(op.opnds[3], store, args))
  ELSE IF op.k = "insertRow"
  THEN InsertRowOp(ValueOf(op.opnds[1], store, args), ValueOf(op.opnds[2], store, args),
                   ValueOf(op.opnds[3], store, args), ValueOf(op.opnds[4], store, args))
  ELSE IF op.k = "insertCol"
  THEN InsertColOp(ValueOf(op.opnds[1], store, args), ValueOf(op.opnds[2], store, args),
                   ValueOf(op.opnds[3], store, args), ValueOf(op.opnds[4], store, args))
  ELSE Pointwise(ValueOf(op.opnds[1], store, args))

RECURSIVE Exec(_, _, _, _, _)
\* the results of the operations of the block from the j-th on
Exec(ops, j, store, args, lits) ==
  IF j > Len(ops) THEN store
  ELSE Exec(ops, j + 1, (ops[j].id :> EvalOp(ops[j], store, args, lits)) @@ store, args, lits)

\* the literals of the positions of an axis, whose operations start at id
Literals(form, lo, hi, id) ==
  IF form = "lo:hi" THEN (id :> lo) @@ (id + 1 :> hi)
  ELSE IF form = ":hi" THEN (id :> hi)
  ELSE IF form \in {"scalar", "lo:"} THEN (id :> lo)
  ELSE <<>>

\* a function with the parameters x and y, matrices or frames, x of any
\* shape
InitExec ==
  /\ pc = "lower"
  /\ stack = <<SimpleFrame("func", Null, <<>>, EmptyScope)>>
  /\ \E ty \in {"matrix", "frame"} :
       symbolTable = <<[n \in {"x", "y"} |->
                          SymbolInfo(Param(IF n = "x" THEN 1 ELSE 2, ty), FALSE)],
                       EmptyScope>>
  /\ nextId = 1
  /\ nextTag = 1
  /\ cnt = [stmts |-> 0, loops |-> 0, parfors |-> 0, prints |-> 0, assigns |-> 0,
            blocks |-> 0]
  /\ funcBlock = <<>>
  /\ origBlock = <<>>
  /\ iters = 0
  /\ err = "none"
  /\ forLoop = Null
  /\ functionsSymbolMap = <<>>
  /\ maybeUDF = Null
  /\ idxCtx = [var |-> "", rows |-> "none", cols |-> "none"]
  /\ globalSymbolTable = <<EmptyScope>>
  /\ guard = <<SimpleFrame("script", Null, <<>>, EmptyScope)>>
  /\ \E nr \in 1..MaxRows, nc \in 1..MaxCols :
       env = [x |-> Object("x", nr, nc), y |-> Object("v", 0, 0), lits |-> <<>>,
              at |-> <<0, 0, 0, 0>>, result |-> Object("x", 0, 0)]

ExecUnchanged ==
  UNCHANGED <<nextTag, funcBlock, origBlock, iters, err, forLoop, functionsSymbolMap, maybeUDF,
              globalSymbolTable, guard>>

\* the lowering of one assignment: the operations r.ops and the binding
\* of var to r.value; e is env with the literals of the statement
Assigned(var, r, rowsForm, colsForm, e, next) ==
  /\ r.err = "none"
  /\ stack' = Emit(r.ops)
  /\ symbolTable' = put(symbolTable, var, SymbolInfo(r.value, FALSE))
  /\ nextId' = nextId + Len(r.ops)
  /\ cnt' = [cnt EXCEPT !.stmts = @ + 1, !.assigns = @ + 1]
  /\ idxCtx' = [var |-> var, rows |-> rowsForm, cols |-> colsForm]
  /\ env' = e
  /\ pc' = next
  /\ ExecUnchanged

\* y = x[2:5, ];  visitAssignStatement 368-382 with
\* visitRightIdxExtractExpr 1221-1245; the value is bound to no name, so
\* renameIf 54-59 gives it as it is
BandSlice ==
  /\ pc = "lower"
  /\ cnt.stmts = 0
  /\ env.x.nr >= 5
  /\ Assigned("y", RightIndexed(get(symbolTable, "x").value, visitRange("lo:hi", nextId),
                                visitRange("none", nextId + 2), nextId),
              "lo:hi", "none", [env EXCEPT !.lits = Literals("lo:hi", 2, 5, nextId) @@ @],
              "lower")

\* y = f(y);
BandMutate ==
  /\ pc = "lower"
  /\ cnt.stmts = 1
  /\ Assigned("y", Done(<<Leaf("f", nextId, <<get(symbolTable, "y").value>>,
                             <<TypeOf(get(symbolTable, "y").value)>>)>>,
                        Val("res", nextId, NoTag, 1, TypeOf(get(symbolTable, "y").value))),
              "none", "none", env, "lower")

\* x[2:5, ] = y;
BandInsert ==
  /\ pc = "lower"
  /\ cnt.stmts = 2
  /\ Assigned("x", handleAssignmentPart(symbolTable, "x", "lo:hi", "none",
                                        get(symbolTable, "y").value, nextId),
              "lo:hi", "none", [env EXCEPT !.lits = Literals("lo:hi", 2, 5, nextId) @@ @],
              "exec")

\* the positions [lo, hi) that a form can give on an axis of the size n
PositionsOf(form, n) ==
  {p \in (0..n) \X (0..n) :
     /\ p[1] <= p[2]
     /\ form = "scalar" => p[2] = p[1] + 1
     /\ form \in {"lo:", ":"} => p[2] = n
     /\ form \in {":hi", ":"} => p[1] = 0}

\* x[rows, cols] = y;  with the positions r of the rows and c of the
\* columns, for an argument y of the shape of these positions
CellWrite(rowsForm, colsForm, r, c) ==
  /\ pc = "lower"
  /\ cnt.stmts = 0
  /\ Assigned("x", handleAssignmentPart(symbolTable, "x", rowsForm, colsForm,
                                        get(symbolTable, "y").value, nextId),
              rowsForm, colsForm,
              [env EXCEPT !.lits = Literals(rowsForm, r[1], r[2], nextId)
                                     @@ Literals(colsForm, c[1], c[2],
                                                 nextId + Len(visitRange(rowsForm, nextId).ops)),
                          !.y = Object("v", r[2] - r[1], c[2] - c[1]),
                          !.at = <<r[1], r[2], c[1], c[2]>>],
              "exec")

\* the forms of an axis of a write of cells
CellForms == {"scalar", "lo:hi", "lo:", ":hi", ":"}

visitAssignStatement_cells ==
  \E rowsForm \in CellForms, colsForm \in CellForms :
    \E r \in PositionsOf(rowsForm, env.x.nr), c \in PositionsOf(colsForm, env.x.nc) :
      CellWrite(rowsForm, colsForm, r, c)

\* the function is called: what x is bound to at the end
Execute ==
  /\ pc = "exec"
  /\ pc' = "done"
  /\ env' = [env EXCEPT !.result =
               ValueOf(get(symbolTable, "x").value,
                       Exec(Top.ops, 1, <<>>, <<env.x, env.y>>, env.lits),
                       <<env.x, env.y>>)]
  /\ UNCHANGED <<stack, symbolTable, nextId, cnt, idxCtx>>
  /\ ExecUnchanged

NextExec ==
  \/ BandSlice
  \/ BandMutate
  \/ BandInsert
  \/ visitAssignStatement_cells
  \/ Execute

SpecExec == InitExec /\ [][NextExec]_vars

\* ------------------------------------------------------------------------
\* User-defined functions and their calls (871-953, 1028-1064, 2234-2245).
\* functionsSymbolMap is a multimap: the functions of one name are found
\* in the order of their registration.  A function is [name, inputs].
\* ------------------------------------------------------------------------
MatrixTypes == {"matrix<si64>", "matrix<f64>", "matrix<unknown>"}

\* MatrixType::getElementType
getElementType(t) ==
  IF t = "matrix<si64>" THEN "si64" ELSE IF t = "matrix<f64>" THEN "f64" ELSE "unknown"

\* argument and parameter type are the same
argAndUDFParamSame(argTy, paramTy) == paramTy = argTy

\* argAndUDFParamCompatible, 871-888
argAndUDFParamCompatible(argTy, paramTy) ==
  \/ paramTy = argTy
  \/ argTy = "unknown" \/ paramTy = "unknown"
  \/ /\ argTy \in MatrixTypes /\ paramTy \in MatrixTypes
     /\ getElementType(argTy) = "unknown" \/ getElementType(paramTy) = "unknown"

\* findMatchingUDF, 896-916: is the function at j a function of the
\* name whose parameters are compatible with the arguments
Compatible(map, functionName, args, j) ==
  /\ map[j].name = functionName
  /\ Len(map[j].inputs) = Len(args)
  /\ \A k \in 1..Len(args) : argAndUDFParamCompatible(args[k], map[j].inputs[k])

RECURSIVE FirstCompatible(_, _, _, _)
\* the first such function from j on, 0 if there is none
FirstCompatible(map, functionName, args, j) ==
  IF j > Len(map) THEN 0
  ELSE IF Compatible(map, functionName, args, j) THEN j
  ELSE FirstCompatible(map, functionName, args, j + 1)

\* the functions registered with the name, in order
EqualRange(map, functionName) == SelectSeq(map, LAMBDA f : f.name = functionName)

\* a search that reports `no user-defined function` whenever nothing matches
findMatchingUDFNoThrow(map, functionName, args) ==
  [udf |-> FirstCompatible(map, functionName, args, 1), throws |-> FALSE,
   types |-> <<>>, options |-> <<>>]

\* findMatchingUDF, 890-953: udf is the function found (0: std::nullopt);
\* when it throws, types and options are the argument types and the
\* signatures that the message lists
findMatchingUDF(map, functionName, args) ==
  IF FirstCompatible(map, functionName, args, 1) # 0
  THEN [udf |-> FirstCompatible(map, functionName, args, 1), throws |-> FALSE,
        types |-> <<>>, options |-> <<>>]
  ELSE IF EqualRange(map, functionName) # <<>>
  THEN [udf |-> 0, throws |-> TRUE, types |-> args,
        options |-> [j \in 1..Len(EqualRange(map, functionName)) |->
                       EqualRange(map, functionName)[j].inputs]]
  ELSE [udf |-> 0, throws |-> FALSE, types |-> <<>>, options |-> <<>>]

\* the types of parameters and of arguments explored
ParamTypes == {"si64", "f64", "unknown", "matrix<si64>", "matrix<unknown>"}
ArgTypes == ParamTypes \cup {"str", "matrix<f64>"}
ParamLists == {<<>>} \cup {<<t>> : t \in ParamTypes} \cup {<<t, "si64">> : t \in {"si64", "unknown"}}
ArgLists == {<<>>} \cup {<<t>> : t \in ArgTypes} \cup {<<t, u>> : t \in ArgTypes, u \in {"si64", "str"}}

\* no call has been resolved yet
NoCall == [name |-> "", args |-> <<>>, udf |-> 0, types |-> <<>>, options |-> <<>>,
           op |-> "none"]

InitUDF ==
  /\ pc = "module"
  /\ functionsSymbolMap = <<>>
  /\ maybeUDF = NoCall
  /\ idxCtx = Null
  /\ env = Null
  /\ globalSymbolTable = Null
  /\ guard = Null
  /\ forLoop = Null
  /\ stack = <<>>
  /\ symbolTable = <<>>
  /\ nextId = 1
  /\ nextTag = 1
  /\ cnt = [stmts |-> 0, loops |-> 0, parfors |-> 0, prints |-> 0, assigns |-> 0,
            blocks |-> 0]
  /\ funcBlock = <<>>
  /\ origBlock = <<>>
  /\ iters = 0
  /\ err = "none"

UDFUnchanged ==
  UNCHANGED <<stack, symbolTable, nextTag, cnt, funcBlock, origBlock, iters, forLoop, idxCtx,
              env, globalSymbolTable, guard>>

\* createUserDefinedFuncOp, 2234-2245, of a function g or h
createUserDefinedFuncOp ==
  /\ pc = "module"
  /\ Len(functionsSymbolMap) < MaxFuncs
  /\ \E functionName \in {"g", "h"}, inputs \in ParamLists :
       functionsSymbolMap' = Append(functionsSymbolMap, [name |-> functionName, inputs |-> inputs])
  /\ UNCHANGED <<pc, err, nextId, maybeUDF>>
  /\ UDFUnchanged

\* visitCallExpr, 1040-1064, of a call of g with arguments of the types
\* args: the GenericCallOp of the function found, an operation of the
\* builtin registry if there is no function of the name, or the error
CallExpr(args) ==
  /\ pc = "module"
  /\ \E r \in {findMatchingUDF(functionsSymbolMap, "g", args)} :
       /\ maybeUDF' = [name |-> "g", args |-> args, udf |-> r.udf, types |-> r.types,
                       options |-> r.options,
                       op |-> IF r.throws THEN "none"
                              ELSE IF r.udf # 0 THEN "GenericCallOp" ELSE "builtin"]
       /\ pc' = IF r.throws THEN "error" ELSE pc
       /\ err' = IF r.throws THEN "no definition of function" ELSE err
  /\ UNCHANGED <<functionsSymbolMap, nextId>>
  /\ UDFUnchanged

visitCallExpr == \E args \in ArgLists : CallExpr(args)

NextUDF == createUserDefinedFuncOp \/ visitCallExpr

SpecUDF == InitUDF /\ [][NextUDF]_vars

\* ------------------------------------------------------------------------
\* Functions by name as arguments of map (handleMapOpCall 986-1026 with
\* findMatchingUnaryUDF 955-984)
\* ------------------------------------------------------------------------
\* 962-972: is the function at j a function of the name with one
\* parameter, compatible with the argument type
UnaryCompatible(map, functionName, argType, j) ==
  /\ map[j].name = functionName
  /\ Len(map[j].inputs) = 1
  /\ argAndUDFParamCompatible(argType, map[j].inputs[1])

RECURSIVE LastUnaryCompatible(_, _, _, _)
\* the last such function up to j, 0 if there is none
LastUnaryCompatible(map, functionName, argType, j) ==
  IF j < 1 THEN 0
  ELSE IF UnaryCompatible(map, functionName, argType, j) THEN j
  ELSE LastUnaryCompatible(map, functionName, argType, j - 1)

\* a search that goes through the functions of the name from the last
\* registered to the first
findMatchingUnaryUDFLast(map, functionName, argType) ==
  IF LastUnaryCompatible(map, functionName, argType, Len(map)) # 0
  THEN [udf |-> LastUnaryCompatible(map, functionName, argType, Len(map)), throws |-> FALSE]
  ELSE [udf |-> 0, throws |-> EqualRange(map, functionName) # <<>>]

RECURSIVE FirstUnaryCompatible(_, _, _, _)
\* 962-972: the first such function from j on, 0 if there is none
FirstUnaryCompatible(map, functionName, argType, j) ==
  IF j > Len(map) THEN 0
  ELSE IF UnaryCompatible(map, functionName, argType, j) THEN j
  ELSE FirstUnaryCompatible(map, functionName, argType, j + 1)

\* findMatchingUnaryUDF, 955-984
findMatchingUnaryUDF(map, functionName, argType) ==
  IF FirstUnaryCompatible(map, functionName, argType, 1) # 0
  THEN [udf |-> FirstUnaryCompatible(map, functionName, argType, 1), throws |-> FALSE]
  ELSE [udf |-> 0, throws |-> EqualRange(map, functionName) # <<>>]

\* handleMapOpCall, 986-1026, of map(X, g) with X of the type argTy: the
\* operation of the builtin registry that takes X and the symbol name of
\* the function found, or an error
MapOpCall(argTy) ==
  /\ pc = "module"
  /\ \E r \in {findMatchingUnaryUDF(functionsSymbolMap, "g", getElementType(argTy))} :
       /\ maybeUDF' = [name |-> "map", args |-> <<argTy>>,
                       udf |-> IF argTy \in MatrixTypes THEN r.udf ELSE 0,
                       types |-> <<>>, options |-> <<>>,
                       op |-> IF argTy \in MatrixTypes /\ r.udf # 0 THEN "map" ELSE "none"]
       /\ pc' = IF argTy \in MatrixTypes /\ r.udf # 0 THEN pc ELSE "error"
       /\ err' = IF argTy \notin MatrixTypes
                 THEN "built-in function 'map' expects argument of type matrix"
                 ELSE IF r.throws THEN "No function definition found with matching types"
                 ELSE IF r.udf = 0 THEN "No function definition found"
                 ELSE err
  /\ UNCHANGED <<functionsSymbolMap, nextId>>
  /\ UDFUnchanged

handleMapOpCall == \E argTy \in MatrixTypes \cup {"si64"} : MapOpCall(argTy)

\* calls with one argument
visitCallExpr_unary == \E t \in ArgTypes : CallExpr(<<t>>)

NextResolve == createUserDefinedFuncOp \/ visitCallExpr_unary \/ handleMapOpCall

SpecResolve == InitUDF /\ [][NextResolve]_vars

\* ------------------------------------------------------------------------
\* Meaning of a function body: the operations it executes and the operands
\* it returns, for a truth value of every condition.  An if executes one
\* of its blocks; a return ends the function; a yield ends the block and
\* gives the if its results; any other operation is executed as one step.
\* ------------------------------------------------------------------------
Pairs(from, to) == {<<from[q], to[q]>> : q \in 1..(IF Len(from) < Len(to) THEN Len(from) ELSE Len(to))}

\* the value an operand stands for: an if's result stands for what the
\* executed block has yielded
Resolve(v, res) == IF \E pr \in res : pr[1] = v THEN (CHOOSE pr \in res : pr[1] = v)[2] ELSE v

RECURSIVE ExecBlock(_, _, _, _)
\* s = [tr, res, out, vals]: the executed operations, the results of the
\* executed ifs, and how the block was left
ExecBlock(block, j, truth, s) ==
  IF j > Len(block) \/ s.out # "none" THEN s
  ELSE LET op == block[j]
       IN  IF op.k \in {"ret", "yield"}
           THEN [s EXCEPT !.out = op.k,
                          !.vals = [q \in 1..Len(op.opnds) |-> Resolve(op.opnds[q], s.res)]]
           ELSE IF op.k = "if"
           THEN LET taken == IF truth[op.opnds[1][2]] THEN op.r1
                             ELSE IF op.nr = 2 THEN op.r2 ELSE <<>>
                    b == ExecBlock(taken, 1, truth, s)
                IN  IF b.out = "ret" THEN b
                    ELSE ExecBlock(block, j + 1, truth,
                                   [b EXCEPT !.out = "none", !.vals = <<>>,
                                             !.res = @ \cup Pairs(Results(op), b.vals)])
           ELSE ExecBlock(block, j + 1, truth, [s EXCEPT !.tr = Append(@, OpKey(op))])

\* what an observer sees: the executed operations by the number they were
\* created with (a clone is the operation it was cloned from), and per
\* returned operand the operation that computed it, 0 if no executed
\* operation has computed it
Outcome(block, truth) ==
  LET s == ExecBlock(block, 1, truth, [tr |-> <<>>, res |-> {}, out |-> "none", vals |-> <<>>])
      Computed(v) == IF v[1] = "param" THEN <<"param", v[4]>>
                     ELSE IF \E q \in 1..Len(s.tr) : s.tr[q] = <<v[2], v[3]>>
                          THEN <<"op", v[2]>> ELSE <<"op", 0>>
  IN  [ops |-> [q \in 1..Len(s.tr) |-> s.tr[q][1]],
       returned |-> s.out = "ret",
       operands |-> [q \in 1..Len(s.vals) |-> Computed(s.vals[q])]]

Conditions(block) == {o.opnds[1][2] : o \in {c \in AllOps(block) : c.k = "if"}}

\* ------------------------------------------------------------------------
\* Shapes of function bodies
\* ------------------------------------------------------------------------
Returns(block) == LET w == WalkReturns(block, <<>>, 1) IN {w[q] : q \in 1..Len(w)}

\* the operations that enclose the operation at position p, outermost first
Ancestors(block, p) == [q \in 1..(Len(p) - 1) |-> BlockAt(block, SubSeq(p, 1, q - 1))[p[q][1]]]

AncestorKinds(block, p) == {Ancestors(block, p)[q].k : q \in 1..(Len(p) - 1)}

IsLastOp(block, p) == p = << <<Len(block), 0>> >>

\* the last operation of the outer block is a return and every other
\* return is nested in conditionals only
OnlyConditionalReturns(block) ==
  /\ block # <<>>
  /\ Last(block).k = "ret"
  /\ \A p \in Returns(block) :
       \/ IsLastOp(block, p)
       \/ Len(p) > 1 /\ AncestorKinds(block, p) = {"if"}

BranchesEndInYield(block) ==
  \A o \in AllOps(block) :
    o.k = "if" => /\ o.r1 # <<>> /\ Last(o.r1).k = "yield"
                  /\ o.nr = 2 => (o.r2 # <<>> /\ Last(o.r2).k = "yield")

\* ------------------------------------------------------------------------
\* Properties of the rewriting of early returns
\* ------------------------------------------------------------------------
Crashed == pc \in UBOutcomes
Rectified == pc = "finish"

OneTrailingReturn(block) ==
  /\ block # <<>>
  /\ Returns(block) = {<< <<Len(block), 0>> >>}
  /\ BranchesEndInYield(block)

\* C1: for a body whose last operation is a return and whose other returns
\* are nested in conditionals only, the rewriting finishes without error,
\* and then the body holds exactly one return, its last operation, and
\* every branch of every conditional ends in a yield.
C1_OneTrailingReturn ==
  OnlyConditionalReturns(origBlock) =>
    /\ pc \notin {"error"} \cup UBOutcomes
    /\ Rectified => OneTrailingReturn(funcBlock)

\* C2: for such a body and every outcome of its conditions, the rewritten
\* body executes the same operations in the same order and returns the
\* same operands as the original body with early exits.
C2_SameBehaviour ==
  (Rectified /\ OnlyConditionalReturns(origBlock)) =>
    \A truth \in [Conditions(origBlock) -> BOOLEAN] :
      Outcome(funcBlock, truth) = Outcome(origBlock, truth)

Application == pc = "rectify" /\ iters' = iters + 1

SelectedPre(block) == LET m == MostNested(WalkReturns(block, <<>>, 1)) IN SubSeq(m, 1, Len(m) - 2)
SelectedIdx(block) == LET m == MostNested(WalkReturns(block, <<>>, 1)) IN m[Len(m) - 1][1]

\* every return at the maximum depth lies directly in a branch of the
\* selected conditional
DeepestInSelected(block) ==
  \A p \in Returns(block) :
    Len(p) = levelOfMostNested(block) =>
      /\ SubSeq(p, 1, Len(p) - 2) = SelectedPre(block)
      /\ p[Len(p) - 1][1] = SelectedIdx(block)

\* the operations that are moved or cloned into the branch without return
\* hold no return, but for a return that is the last of them
NoReturnCarried(block) ==
  LET after == OpsAfterIf(block, SelectedPre(block), SelectedIdx(block), TRUE).ops
  IN  \A j \in 1..Len(after) :
        \A o \in AllOps(<<after[j].op>>) :
          o.k = "ret" => (j = Len(after) /\ o = after[j].op)

RECURSIVE rectifyAgain(_, _, _, _)
\* rectifyEarlyReturns as a function of the body: the passes of its loop
\* until one ends it
rectifyAgain(body, id0, tag0, fuel) ==
  LET s == LoopPass(body, id0, tag0)
  IN  IF s.applied = 0 \/ fuel = 0
      THEN [next |-> s.next, body |-> s.body, applied |-> 0]
      ELSE LET r == rectifyAgain(s.body, id0 + 4, tag0 + s.tags, fuel - 1)
           IN  [r EXCEPT !.applied = @ + 1]

\* C5: rectifyEarlyReturns run on a body it has rectified finishes at once
\* and creates, moves, clones or erases no operation.
C5_Idempotent ==
  Rectified =>
    LET again == rectifyAgain(funcBlock, nextId, nextTag, MaxIters)
    IN  /\ again.next = {"finish"}
        /\ again.applied = 0
        /\ again.body = funcBlock

\* a body the rectifier has changed in two applications
C5_Witness == Rectified /\ iters = 2 /\ funcBlock # origBlock

ReturnsOutsideParFor(block) == {p \in Returns(block) : "parfor" \notin AncestorKinds(block, p)}

HasParFor(block) == \E o \in AllOps(block) : o.k = "parfor"

\* C6: with a parallel-for loop in the body, and the returns outside it
\* nested in conditionals only but for the trailing one, the only return
\* outside parallel-for bodies after rectification is the last operation
\* of the outer block.
C6_ParForSkipped ==
  (/\ Rectified
   /\ HasParFor(origBlock)
   /\ origBlock # <<>> /\ Last(origBlock).k = "ret"
   /\ \A p \in ReturnsOutsideParFor(origBlock) :
        IsLastOp(origBlock, p) \/ (Len(p) > 1 /\ AncestorKinds(origBlock, p) = {"if"}))
  => ReturnsOutsideParFor(funcBlock) = {<< <<Len(funcBlock), 0>> >>}

\* a return whose innermost enclosing construct other than a conditional
\* is a while, do-while or for loop
InLoop(block, p) ==
  \E q \in 1..(Len(p) - 1) :
    /\ Ancestors(block, p)[q].k \in {"while", "for"}
    /\ \A u \in (q + 1)..(Len(p) - 1) : Ancestors(block, p)[u].k = "if"

\* C7: the lowering of a function whose body holds a return in a while,
\* do-while or for loop never completes successfully.
C7_LoopReturnFails ==
  (\E p \in Returns(origBlock) : InLoop(origBlock, p)) => pc \notin {"finish", "done"}

\* without a parallel-for loop in the body such a function always ends in
\* the error
C7_LoopReturnFailsNoParFor ==
  (/\ \E p \in Returns(origBlock) : InLoop(origBlock, p)
   /\ ~HasParFor(origBlock))
  => pc \in {"rectify", "error"}

\* ------------------------------------------------------------------------
\* Properties of the lowering of assignments and conditionals
\* ------------------------------------------------------------------------
LoopKinds == {"for", "parfor", "while", "dowhile"}

\* the innermost open loop, 0 if there is none
InnermostLoop ==
  LET loops == {j \in 1..Len(stack) : stack[j].k \in LoopKinds}
  IN  IF loops = {} THEN 0 ELSE Max(loops)

\* the point of lowering lies in the body of a for loop, in no loop nested
\* in it
InForBody == pc = "lower" /\ InnermostLoop # 0 /\ stack[InnermostLoop].k = "for"

\* the scopes a construct has pushed
Width(k) == IF k = "block" THEN 1 ELSE 2

RECURSIVE ScopesBelow(_)
ScopesBelow(j) == IF j <= 1 THEN 0 ELSE Width(stack[j - 1].k) + ScopesBelow(j - 1)

\* the scope the construct of frame j has pushed first (for: the scope of
\* the induction variable)
FirstScope(j) == ScopesBelow(j) + 1

\* C8: an assignment to the induction variable of the for loop whose body
\* is being lowered, plain or left-indexed, fails with the read-only error
\* at that assignment and leaves the symbol table unchanged.
C8_InductionVarAssignFails ==
  [][\A a \in AssignForms :
       (/\ InForBody
        /\ a[1] = stack[InnermostLoop].var
        /\ AssignStatement(a[1], a[2], a[3]))
       => (pc' = "error" /\ err' = "readonly" /\ symbolTable' = symbolTable)]_vars

\* C9: at every point of the body of a for loop the name of its induction
\* variable resolves to a read-only binding, and the binding in the
\* loop's scope stays the read-only induction variable.
C9_ReadOnlyKept ==
  InForBody =>
    LET f == stack[InnermostLoop]
        scope == symbolTable[FirstScope(InnermostLoop)]
    IN  /\ has(symbolTable, f.var)
        /\ get(symbolTable, f.var).isReadOnly
        /\ f.var \in DOMAIN scope
        /\ scope[f.var] = SymbolInfo(Results(f.ops[3])[1], TRUE)

\* the symbol table as it was before the if statement whose branch is
\* being lowered
BeforeIf == SubSeq(symbolTable, 1, Len(symbolTable) - 2)

\* the names bound before the if statement that the branch has rebound
ReboundInBranch ==
  {n \in Names : has(BeforeIf, n) /\ get(symbolTable, n).value # get(BeforeIf, n).value}

ElseStep ==
  /\ pc = "lower" /\ pc' = "lower"
  /\ Top.k = "then"
  /\ Len(stack') = Len(stack) /\ stack'[Len(stack)].k = "else"

MergeStep ==
  /\ pc = "lower" /\ pc' = "lower"
  /\ Top.k \in {"then", "else"}
  /\ Len(stack') = Len(stack) - 1

\* the wiring of the if statement that MergeStep has closed
Wired ==
  LET hasElse == Top.k = "else"
      thenNames == IF hasElse THEN DOMAIN Top.ow ELSE ReboundInBranch
      elseNames == IF hasElse THEN ReboundInBranch ELSE {}
      thenValue(n) == IF n \notin thenNames THEN get(BeforeIf, n).value
                      ELSE IF hasElse THEN Top.ow[n].value ELSE get(symbolTable, n).value
      elseValue(n) == IF n \notin elseNames THEN get(BeforeIf, n).value
                      ELSE get(symbolTable, n).value
      liveOut == SelectSeq(NameOrder, LAMBDA n : n \in thenNames \cup elseNames)
      ifOp == Last(stack'[Len(stack')].ops)
  IN  /\ ifOp.k = "if"
      /\ Len(Results(ifOp)) = Len(liveOut)
      /\ Last(ifOp.r1).k = "yield"
      /\ Last(ifOp.r1).opnds = [q \in 1..Len(liveOut) |-> thenValue(liveOut[q])]
      /\ (hasElse \/ liveOut # <<>>) =>
           /\ ifOp.nr = 2
           /\ Last(ifOp.r2).k = "yield"
           /\ Last(ifOp.r2).opnds = [q \in 1..Len(liveOut) |-> elseValue(liveOut[q])]
      /\ Len(symbolTable') = Len(BeforeIf)
      /\ \A q \in 1..Len(liveOut) :
           get(symbolTable', liveOut[q]) = SymbolInfo(Results(ifOp)[q], FALSE)
      /\ \A n \in Names :
           (\A q \in 1..Len(liveOut) : liveOut[q] # n) =>
             /\ has(symbolTable', n) = has(BeforeIf, n)
             /\ has(BeforeIf, n) => get(symbolTable', n) = get(BeforeIf, n)

\* C10: the names an if statement merges are those rebound in its then-
\* or its else-branch, in lexicographic order; it has one result per name;
\* the yield of a branch carries, per name, the value the branch has bound
\* or else the value bound before the statement; afterwards each of the
\* names is bound to its result and every other name is bound as before.
C10_IfMergeWiring ==
  [][/\ ElseStep =>
          /\ DOMAIN stack'[Len(stack)].ow = ReboundInBranch
          /\ \A n \in ReboundInBranch :
               stack'[Len(stack)].ow[n].value = get(symbolTable, n).value
     /\ MergeStep => Wired]_vars

\* an if statement has merged two names, one from each branch
C10_Witness ==
  /\ pc = "lower"
  /\ Top.ops # <<>>
  /\ LET ifOp == Last(Top.ops)
     IN  /\ ifOp.k = "if"
         /\ Len(ifOp.rty) = 2
         /\ Last(ifOp.r1).opnds[1] # Last(ifOp.r2).opnds[1]
         /\ Last(ifOp.r1).opnds[2] # Last(ifOp.r2).opnds[2]
         /\ \E q \in 1..2 : Last(ifOp.r1).opnds[q][1] = "param"
         /\ \E q \in 1..2 : Last(ifOp.r2).opnds[q][1] = "param"

\* ------------------------------------------------------------------------
\* Properties of the merge of types at a conditional
\* ------------------------------------------------------------------------
\* the step ends the if statement whose branch is being lowered: it emits
\* the if operation or fails at the merge
IfEndStep ==
  /\ pc = "lower"
  /\ Top.k \in {"then", "else"}
  /\ Len(stack') = Len(stack) - 1

\* the names the then-branch and the else-branch have rebound
ThenNames == IF Top.k = "else" THEN DOMAIN Top.ow ELSE ReboundInBranch
ElseNames == IF Top.k = "else" THEN ReboundInBranch ELSE {}

\* the value of name n at the end of the then-branch and of the else-branch
ThenValue(n) ==
  IF n \notin ThenNames THEN get(BeforeIf, n).value
  ELSE IF Top.k = "else" THEN Top.ow[n].value ELSE get(symbolTable, n).value
ElseValue(n) ==
  IF n \notin ElseNames THEN get(BeforeIf, n).value ELSE get(symbolTable, n).value

\* the live-out names whose two types differ while neither is Unknown
Mismatched ==
  {n \in ThenNames \cup ElseNames :
     /\ TypeOf(ThenValue(n)) # TypeOf(ElseValue(n))
     /\ TypeOf(ThenValue(n)) # "unknown"
     /\ TypeOf(ElseValue(n)) # "unknown"}

\* C11: the end of an if statement fails with the type-ambiguity error,
\* naming a variable, exactly when some live-out name has a then-branch
\* value and an else-branch value (the value bound before the statement for
\* a branch that has not rebound the name) whose types differ and are both
\* not Unknown; the named variable is such a name; after the failure the
\* enclosing block holds no if operation of the statement and the symbol
\* table is the one before the statement.  Otherwise there is no error.
C11_TypeAmbiguity ==
  [][IfEndStep =>
       IF Mismatched = {}
       THEN /\ pc' = "lower" /\ err' = "none"
            /\ Last(stack'[Len(stack')].ops).k = "if"
       ELSE /\ pc' = "error"
            /\ \E n \in Mismatched : err' = "ambiguous " \o n
            /\ stack'[Len(stack')].ops = stack[Len(stack) - 1].ops
            /\ symbolTable' = BeforeIf]_vars

\* a first if statement has merged an Unknown and an si64 value of a name,
\* a second one has failed for a name that is si64 in its branch and f64
\* before
C11_Witness ==
  /\ pc = "error"
  /\ err = "ambiguous y"
  /\ \E j \in 1..Len(Top.ops) :
       /\ Top.ops[j].k = "if"
       /\ Len(Top.ops[j].rty) = 1
       /\ TypeOf(Last(Top.ops[j].r1).opnds[1]) = "unknown"
       /\ TypeOf(Last(Top.ops[j].r2).opnds[1]) = "si64"
  /\ get(symbolTable, "y").value = Param(2, "f64")

\* ------------------------------------------------------------------------
\* Properties of the lowering of loops
\* ------------------------------------------------------------------------
\* the scopes the loop whose body is being lowered has pushed: its own
\* (do-while: two) and the one of the body's block statement
LoopScopes == IF Top.k = "dowhile" THEN 3 ELSE 2

\* the symbol table as it was before the loop
BeforeLoop == SubSeq(symbolTable, 1, Len(symbolTable) - LoopScopes)

\* the names bound before the loop that its body has rebound, in order
ReboundInBody ==
  {n \in Names : has(BeforeLoop, n) /\ get(symbolTable, n).value # get(BeforeLoop, n).value}
LoopCarried == SelectSeq(NameOrder, LAMBDA n : n \in ReboundInBody)

PreLoopValues == [q \in 1..Len(LoopCarried) |-> get(BeforeLoop, LoopCarried[q]).value]
BodyValues == [q \in 1..Len(LoopCarried) |-> get(symbolTable, LoopCarried[q]).value]

\* the parameters of region r (1 or 2) of the loop operation op, one per
\* loop-carried name
RegionParams(op, r) ==
  [q \in 1..Len(LoopCarried) |->
     Val(IF r = 1 THEN "arg1" ELSE "arg2", op.id, NoTag, q, TypeOf(BodyValues[q]))]

\* value v as it is read inside region r of the loop operation op: the
\* pre-loop value of a loop-carried name is the region's parameter for it
InRegion(v, op, r) ==
  IF \E q \in 1..Len(LoopCarried) : PreLoopValues[q] = v
  THEN RegionParams(op, r)[CHOOSE q \in 1..Len(LoopCarried) : PreLoopValues[q] = v]
  ELSE v

\* the loop operation that the step has put into the enclosing block
NewLoopOp == Last(stack'[Len(stack')].ops)

Keys(block) == [j \in 1..Len(block) |-> OpKey(block[j])]

\* while: the condition region holds the comparison of the pre-loop x and
\* the ConditionOp, which hands on the region's parameters; the body's
\* operations are the body region, before its yield
PreTested ==
  LET op == NewLoopOp
  IN  /\ pc' = "lower"
      /\ op.k = "while"
      /\ Len(op.r1) = 2
      /\ op.r1[1].k = "cmp"
      /\ op.r1[1].opnds = <<InRegion(get(BeforeLoop, "x").value, op, 1)>>
      /\ op.r1[2].k = "condition"
      /\ op.r1[2].opnds = <<Res(op.r1[1], 1, "bool")>> \o RegionParams(op, 1)
      /\ Len(op.r2) = Len(Top.ops) + 1
      /\ SubSeq(Keys(op.r2), 1, Len(Top.ops)) = Keys(Top.ops)
      /\ Last(op.r2).k = "yield"
      /\ \A j \in 1..Len(Top.ops) : \A c \in 1..2 : OpKey(op.r1[c]) # OpKey(Top.ops[j])

\* do-while with a condition on v: the first region holds the body's
\* operations, then the comparison of v as the body has left it, then the
\* ConditionOp; the second region only yields its parameters.  A v that
\* was not bound before the loop is unbound in the condition.
PostTested(v) ==
  LET op == NewLoopOp
      n == Len(Top.ops)
  IN  IF ~has(BeforeLoop, v) THEN pc' = "error" /\ err' = "unbound"
      ELSE /\ pc' = "lower"
           /\ op.k = "while"
           /\ n >= 1
           /\ Len(op.r1) = n + 2
           /\ SubSeq(Keys(op.r1), 1, n) = Keys(Top.ops)
           /\ op.r1[n + 1].k = "cmp"
           /\ op.r1[n + 1].opnds = <<InRegion(get(symbolTable, v).value, op, 1)>>
           /\ op.r1[n + 2].k = "condition"
           /\ op.r1[n + 2].opnds = <<Res(op.r1[n + 1], 1, "bool")>> \o BodyValues
           /\ Len(op.r2) = 1
           /\ op.r2[1].k = "yield"
           /\ op.r2[1].opnds = RegionParams(op, 2)

\* C12: the operation built for a while loop computes the condition in
\* its condition region, where no operation of the body lies, and hands
\* the region's parameters unchanged to the body region; the operation
\* built for a do-while loop has the body's operations first, then the
\* condition, which reads the bindings as the body has left them, and a
\* name that only the body has created is not bound in the condition.
C12_PreAndPostTested ==
  [][\A v \in CondVars :
       (/\ pc = "lower"
        /\ Top.k \in {"while", "dowhile"}
        /\ WhileStatement(v))
       => IF Top.k = "while" THEN PreTested ELSE PostTested(v)]_vars

\* a do-while loop has been lowered whose body rebinds x and whose
\* condition reads the x of the body
C12_Witness ==
  /\ pc = "lower"
  /\ Top.ops # <<>>
  /\ LET op == Last(Top.ops)
         n == Len(op.r1)
     IN  /\ op.k = "while"
         /\ Len(op.r2) = 1
         /\ Len(op.rty) >= 1
         /\ n >= 3
         /\ op.r1[n - 1].k = "cmp"
         /\ \E j \in 1..(n - 2) : op.r1[n - 1].opnds = Results(op.r1[j])
         /\ op.r1[n].opnds[2] = op.r1[n - 1].opnds[1]

\* the step has closed the loop whose body is being lowered
LoopEndStep ==
  /\ pc = "lower" /\ pc' = "lower"
  /\ Top.k \in {"while", "dowhile", "for"}
  /\ Len(stack') = Len(stack) - 1

\* the symbol table at the start of the body: a for loop has bound its
\* induction variable (the result of the third operation of its block)
BodyStart ==
  IF Top.k = "for"
  THEN Append(BeforeLoop, [n \in {Top.var} |-> SymbolInfo(Results(Top.ops[3])[1], TRUE)])
  ELSE BeforeLoop

\* the names bound before the loop that the statements of the body have
\* rebound
ReboundByBody ==
  {n \in Names : has(BeforeLoop, n) /\ get(symbolTable, n).value # get(BodyStart, n).value}

\* the name of the induction variable of a for loop, if it was bound
\* before the loop
ShadowingInductionVar ==
  IF Top.k = "for" /\ has(BeforeLoop, Top.var) THEN {Top.var} ELSE {}

\* the result of the loop operation op for position q when the body runs
\* zero times: the initial operand (for), or what the ConditionOp hands on
\* when the condition region's parameters are the initial operands (while)
ZeroTripResult(op, q) ==
  IF op.k = "for" THEN op.opnds[3 + q]
  ELSE LET v == Last(op.r1).opnds[q + 1]
       IN  IF v[1] = "arg1" /\ v[2] = op.id THEN op.opnds[v[4]] ELSE v

\* the wiring of the loop that LoopEndStep has closed, for the set S of
\* loop-carried names
WiredLoop(S) ==
  LET op == NewLoopOp
      carried == SelectSeq(NameOrder, LAMBDA n : n \in S)
      pre == [q \in 1..Len(carried) |-> get(BeforeLoop, carried[q]).value]
      fin == [q \in 1..Len(carried) |-> get(symbolTable, carried[q]).value]
      \* the parameter of the region of the body for position q
      param(q) == IF Top.k = "for" THEN Val("arg1", op.id, NoTag, q + 1, TypeOf(pre[q]))
                  ELSE Val(IF Top.k = "while" THEN "arg2" ELSE "arg1", op.id, NoTag, q,
                           TypeOf(fin[q]))
      inBody(v) == IF \E q \in 1..Len(carried) : pre[q] = v
                   THEN param(CHOOSE q \in 1..Len(carried) : pre[q] = v) ELSE v
      initial == IF Top.k = "for" THEN SubSeq(op.opnds, 4, Len(op.opnds)) ELSE op.opnds
      handedOn == IF Top.k = "dowhile" THEN Tail(Last(op.r1).opnds)
                  ELSE IF Top.k = "while" THEN Last(op.r2).opnds
                  ELSE Last(op.r1).opnds
  IN  /\ op.k = (IF Top.k = "for" THEN "for" ELSE "while")
      /\ Len(Results(op)) = Len(carried)
      /\ initial = pre
      /\ handedOn = [q \in 1..Len(carried) |-> inBody(fin[q])]
      /\ Len(symbolTable') = Len(BeforeLoop)
      /\ \A q \in 1..Len(carried) :
           get(symbolTable', carried[q]) = SymbolInfo(Results(op)[q], FALSE)
      /\ \A n \in Names \ S :
           /\ has(symbolTable', n) = has(BeforeLoop, n)
           /\ has(BeforeLoop, n) => get(symbolTable', n) = get(BeforeLoop, n)
      /\ Top.k # "dowhile" =>
           \A q \in 1..Len(carried) : ZeroTripResult(op, q) = pre[q]

Abs(n) == IF n < 0 THEN -n ELSE n

\* from and to lie more than |step| away from the least and the greatest
\* integer, and the step is not the least integer
AwayFromOverflow ==
  /\ forLoop.given # MinInt
  /\ forLoop.from \in (MinInt + Abs(forLoop.given) + 1)..(MaxInt - Abs(forLoop.given) - 1)
  /\ forLoop.to \in (MinInt + Abs(forLoop.given) + 1)..(MaxInt - Abs(forLoop.given) - 1)

\* from, from + s, from + 2s, ... as long as the value does not pass to
Visits(from, to, s) ==
  LET n == IF s > 0 THEN (IF to >= from THEN (to - from) \div s + 1 ELSE 0)
           ELSE (IF from >= to THEN (from - to) \div (-s) + 1 ELSE 0)
  IN  [k \in 1..n |-> from + (k - 1) * s]

\* the run so far has visited the first values of expected, goes on while
\* values are left and ends when none is left
Runs(expected) ==
  /\ pc \in {"for", "exit"}
  /\ ~forLoop.overflow
  /\ Len(forLoop.visited) <= Len(expected)
  /\ forLoop.visited = SubSeq(expected, 1, Len(forLoop.visited))
  /\ pc = "exit" => forLoop.visited = expected
  /\ pc = "for" => (forLoop.c < forLoop.ub <=> Len(forLoop.visited) < Len(expected))

\* C14: without a step, and away from the overflow of the integers, the
\* derived step is +1 if to >= from and -1 otherwise; the normalised loop
\* counts upwards by 1 and the induction variable of the script takes the
\* values from, from + step, ..., to in this order, |to - from| + 1 of
\* them, one value (from) if from = to.
C14_OmittedStep ==
  (~forLoop.hasStep /\ AwayFromOverflow) =>
    LET from == forLoop.from
        to == forLoop.to
        step == IF to >= from THEN 1 ELSE -1
    IN  /\ forLoop.given = step
        /\ forLoop.direction = step
        /\ forLoop.lb = from * step
        /\ forLoop.ub = (to + step) * step
        /\ forLoop.step = 1
        /\ Runs([k \in 1..(Abs(to - from) + 1) |-> from + (k - 1) * step])
        /\ from = to => Runs(<<from>>)

\* the loop of `for (i in 5:1)` has ended
C14_Witness ==
  /\ pc = "exit"
  /\ ~forLoop.hasStep
  /\ forLoop.from = 5 /\ forLoop.to = 1
  /\ forLoop.visited = <<5, 4, 3, 2, 1>>

\* with the step s # 0 the normalised bounds are from * direction,
\* (to + direction) * direction and s * direction > 0 for direction =
\* sign(s), and the induction variable of the script takes the values
\* from + k * s, k = 0, 1, ..., that do not pass to
ExplicitStepRun ==
  LET from == forLoop.from
      to == forLoop.to
      s == forLoop.given
      direction == IF s > 0 THEN 1 ELSE -1
  IN  /\ forLoop.direction = direction
      /\ forLoop.lb = from * direction
      /\ forLoop.ub = (to + direction) * direction
      /\ forLoop.step = s * direction
      /\ forLoop.step > 0
      /\ Runs(Visits(from, to, s))
      /\ (to - from) * s < 0 => forLoop.visited = <<>>

\* C15: for every given step s # 0 the loop runs as ExplicitStepRun says.
C15_ExplicitStep ==
  (forLoop.hasStep /\ forLoop.given # 0) => ExplicitStepRun

\* C15, amended: the same for from and to away from the overflow of the
\* integers.
C15_ExplicitStepAwayFromOverflow ==
  (forLoop.hasStep /\ forLoop.given # 0 /\ AwayFromOverflow) => ExplicitStepRun

\* the loop of `for (i in 4:0:-2)` has ended
C15_Witness ==
  /\ pc = "exit"
  /\ forLoop.hasStep
  /\ forLoop.from = 4 /\ forLoop.to = 0 /\ forLoop.given = -2
  /\ forLoop.visited = <<4, 2, 0>>

\* ------------------------------------------------------------------------
\* Properties of the lowering of parallel for loops
\* ------------------------------------------------------------------------
\* the operands of the operations in the body of the parfor operation P,
\* nested ones included
UsedInBody(P) ==
  UNION {{o.opnds[q] : q \in 1..Len(o.opnds)} : o \in AllOps(P.r1)}

\* value v is a result or a block argument of an operation in the body of
\* P, or an argument of the body block of P
ClosedIn(P, v) ==
  \/ v[1] = "arg1" /\ v[2] = P.id /\ v[4] <= Len(P.opnds) - 2
  \/ /\ v[1] \in {"res", "arg1", "arg2"}
     /\ \E o \in AllOps(P.r1) : OpKey(o) = <<v[2], v[3]>>

\* the operands of P before from, to and step
CapturedBy(P) == SubSeq(P.opnds, 1, Len(P.opnds) - 3)

\* C16: in a lowered function body, every operand of every operation in
\* the body of a parfor operation, nested ones included, is defined in
\* that body or is an argument of its block, and no value occurs twice
\* among the captured operands of the parfor operation.
C16_CaptureComplete ==
  (pc \in {"rectify", "finish"}) =>
    \A P \in {o \in AllOps(origBlock) : o.k = "parfor"} :
      /\ \A v \in UsedInBody(P) : ClosedIn(P, v)
      /\ \A q, r \in 1..Len(CapturedBy(P)) :
           CapturedBy(P)[q] = CapturedBy(P)[r] => q = r

\* the step has closed the parallel for loop whose body is being lowered
ParForEndStep ==
  /\ pc = "lower" /\ pc' = "lower"
  /\ Top.k = "parfor"
  /\ Len(stack') = Len(stack) - 1

\* the last three operations of the enclosing block at the end of the
\* body: what the loop has emitted for from, to and step
BoundOps ==
  LET enc == stack[Len(stack) - 1].ops
  IN  SubSeq(enc, Len(enc) - 2, Len(enc))

\* the from, to and step operands of the parfor operation P
BoundOperands(P) == SubSeq(P.opnds, Len(P.opnds) - 2, Len(P.opnds))

\* from and step are the values of the script (the step that was left out
\* is the constant 1), and the body block ends in a return of one value
\* per result
ParForShape(P) ==
  /\ P.k = "parfor"
  /\ BoundOps[1].k = "const"
  /\ BoundOps[3].k \in {"const", "const 1"}
  /\ BoundOperands(P)[1] = Res(BoundOps[1], 1, "si64")
  /\ BoundOperands(P)[3] = Res(BoundOps[3], 1, "si64")
  /\ P.r1 # <<>>
  /\ Last(P.r1).k = "ret"
  /\ Len(Last(P.r1).opnds) = Len(P.rty)
  /\ \A j \in 1..(Len(P.r1) - 1) : P.r1[j].k # "ret"

\* C17: the parfor operation gets from and step as the script gives them,
\* the constant 1 for a step that was left out, and as its upper bound
\* the sum to + 1; its body block ends in a return of its values.
C17_ParForBounds ==
  [][/\ \A h \in BOOLEAN :
          (~h /\ ParForStatement_body(h)) => Last(stack'[Len(stack)].ops).k = "const 1"
     /\ ParForEndStep =>
          /\ ParForShape(NewLoopOp)
          /\ \E o \in AllOps(stack'[Len(stack')].ops) :
               /\ o.k = "ewAdd"
               /\ o.opnds[1] = Res(BoundOps[2], 1, "si64")
               /\ BoundOperands(NewLoopOp)[2] = Res(o, 1, "si64")]_vars

\* C17, amended: the same, but the upper bound of the parfor operation is
\* the value of the script's to itself.
C17_ParForBoundsAsGiven ==
  [][/\ \A h \in BOOLEAN :
          ParForStatement_body(h) =>
            LET enc == stack'[Len(stack)].ops
            IN  /\ Len(enc) = Len(Top.ops) + 3
                /\ enc[Len(enc) - 2].k = "const"
                /\ enc[Len(enc) - 1].k = "const"
                /\ enc[Len(enc)].k = (IF h THEN "const" ELSE "const 1")
     /\ ParForEndStep =>
          /\ ParForShape(NewLoopOp)
          /\ BoundOps[2].k = "const"
          /\ BoundOperands(NewLoopOp)[2] = Res(BoundOps[2], 1, "si64")]_vars

\* a parallel for loop without a step has been lowered whose body rebinds
\* a name
C17_Witness ==
  /\ pc = "lower"
  /\ Len(Top.ops) >= 4
  /\ LET P == Last(Top.ops)
         n == Len(Top.ops)
     IN  /\ P.k = "parfor"
         /\ Top.ops[n - 1].k = "const 1"
         /\ P.opnds[Len(P.opnds)] = Res(Top.ops[n - 1], 1, "si64")
         /\ Len(P.rty) >= 1
         /\ Len(Last(P.r1).opnds) >= 1


\* ------------------------------------------------------------------------
\* Overload resolution of user-defined functions
\* ------------------------------------------------------------------------
\* the parameter type and the argument type agree: they are equal, one of
\* them is unknown, or both are matrices and one element type is unknown
TypesAgree(paramTy, argTy) ==
  \/ paramTy = argTy
  \/ paramTy = "unknown"
  \/ argTy = "unknown"
  \/ /\ paramTy \in MatrixTypes
     /\ argTy \in MatrixTypes
     /\ "unknown" \in {getElementType(paramTy), getElementType(argTy)}

\* the registered functions of the name g that a call with args may select
Candidates(args) ==
  {j \in 1..Len(functionsSymbolMap) :
     /\ functionsSymbolMap[j].name = "g"
     /\ Len(functionsSymbolMap[j].inputs) = Len(args)
     /\ \A k \in 1..Len(args) : TypesAgree(functionsSymbolMap[j].inputs[k], args[k])}

\* the functions registered are g(si64) and g(f64)
TwoScalarOverloads ==
  /\ Len(functionsSymbolMap) = 2
  /\ {functionsSymbolMap[1], functionsSymbolMap[2]} =
       {[name |-> "g", inputs |-> <<"si64">>], [name |-> "g", inputs |-> <<"f64">>]}

\* C18: a call selects a registered function only if it has the called
\* name, as many parameters as there are arguments, and at every position
\* types that are equal, or one of them unknown, or both matrices with one
\* element type unknown; when exactly one registered function is such a
\* candidate, it is selected; with g(si64) and g(f64) registered the call
\* g(x) with x of unknown type succeeds; the call leaves the function
\* table as it is.
C18_OverloadMatching ==
  [][CallExpr(maybeUDF'.args) =>
       /\ maybeUDF'.udf # 0 => maybeUDF'.udf \in Candidates(maybeUDF'.args)
       /\ Cardinality(Candidates(maybeUDF'.args)) = 1 =>
            /\ maybeUDF'.udf \in Candidates(maybeUDF'.args)
            /\ maybeUDF'.op = "GenericCallOp"
       /\ (TwoScalarOverloads /\ maybeUDF'.args = <<"unknown">>) =>
            /\ maybeUDF'.op = "GenericCallOp"
            /\ pc' # "error"
       /\ functionsSymbolMap' = functionsSymbolMap]_vars

\* g(si64) and g(f64) are registered and g(x) with x of unknown type has
\* been resolved to one of them
C18_Witness ==
  /\ TwoScalarOverloads
  /\ maybeUDF.name = "g"
  /\ maybeUDF.args = <<"unknown">>
  /\ maybeUDF.op = "GenericCallOp"
  /\ maybeUDF.udf \in {1, 2}
  /\ pc = "module"


\* the registered functions of the name g
Registered == {j \in 1..Len(functionsSymbolMap) : functionsSymbolMap[j].name = "g"}

\* C19: if functions of the called name are registered and none is a
\* candidate, the call fails with an error that lists the types of the
\* arguments and the signature of every registered function of the name;
\* if no function of the name is registered, there is no error and the
\* call is given to the builtin registry; with g(si64) and g(f64)
\* registered g(<string>) fails and lists both signatures.
C19_OverloadFailure ==
  [][CallExpr(maybeUDF'.args) =>
       /\ (Registered # {} /\ Candidates(maybeUDF'.args) = {}) =>
            /\ pc' = "error"
            /\ err' = "no definition of function"
            /\ maybeUDF'.op = "none"
            /\ maybeUDF'.types = maybeUDF'.args
            /\ Len(maybeUDF'.options) = Cardinality(Registered)
            /\ \A j \in Registered :
                 maybeUDF'.options[Cardinality({i \in Registered : i <= j})] =
                   functionsSymbolMap[j].inputs
       /\ Registered = {} =>
            /\ pc' = pc
            /\ err' = err
            /\ maybeUDF'.udf = 0
            /\ maybeUDF'.op = "builtin"
       /\ (TwoScalarOverloads /\ maybeUDF'.args = <<"str">>) =>
            /\ pc' = "error"
            /\ {maybeUDF'.options[j] : j \in 1..Len(maybeUDF'.options)} =
                 {<<"si64">>, <<"f64">>}]_vars

\* g(si64) and g(f64) are registered, g(<string>) has failed and the two
\* signatures are listed
C19_Witness ==
  /\ TwoScalarOverloads
  /\ pc = "error"
  /\ err = "no definition of function"
  /\ maybeUDF.args = <<"str">>
  /\ maybeUDF.types = <<"str">>
  /\ Len(maybeUDF.options) = 2


\* ------------------------------------------------------------------------
\* Left indexing
\* ------------------------------------------------------------------------
\* the operations that the step has added to the block
NewOps ==
  SubSeq(stack'[Len(stack)].ops, Len(Top.ops) + 1, Len(stack'[Len(stack)].ops))

\* v is the result of one of the new operations, of the kind k
IsDef(v, k) == v[1] = "res" /\ \E j \in 1..Len(NewOps) : NewOps[j].id = v[2] /\ NewOps[j].k = k

\* the new operation that v is the result of
Def(v) == NewOps[CHOOSE j \in 1..Len(NewOps) : NewOps[j].id = v[2]]

\* the value of the p-th new operation
NewValue(p) == Res(NewOps[p], 1, NewOps[p].rty[1])

\* the number of position expressions of an axis
NPos(form) == IF form \in {"none", ":"} THEN 0 ELSE IF form = "lo:hi" THEN 2 ELSE 1

\* [lo, hi) is [v, v + 1) for the position v
WidthOneRange(lo, hi, v) ==
  /\ lo = v
  /\ IsDef(hi, "cast")
  /\ IsDef(Def(hi).opnds[1], "ewAdd")
  /\ Def(Def(hi).opnds[1]).opnds[1] = v
  /\ IsDef(Def(Def(hi).opnds[1]).opnds[2], "const 1")

\* [lo, hi) is the range of the form, whose position expressions start at
\* the p-th new operation: a bound left out is 0 or the size of arg
RangeOf(form, lo, hi, arg, numKind, p) ==
  /\ form \in {"lo:hi", "lo:"} => lo = NewValue(p)
  /\ form \in {":hi", ":"} => IsDef(lo, "const 0")
  /\ form = "lo:hi" => hi = NewValue(p + 1)
  /\ form = ":hi" => hi = NewValue(p)
  /\ form \in {"lo:", ":"} =>
       /\ IsDef(hi, "cast")
       /\ IsDef(Def(hi).opnds[1], numKind)
       /\ Def(Def(hi).opnds[1]).opnds = <<arg>>

\* exactly one new operation of the kind inserts, and it writes the
\* positions of the form
AxisWritten(form, kind, numKind, p) ==
  /\ Cardinality({j \in 1..Len(NewOps) : NewOps[j].k = kind}) = 1
  /\ \A j \in 1..Len(NewOps) : NewOps[j].k = kind =>
       IF form = "scalar"
       THEN WidthOneRange(NewOps[j].opnds[3], NewOps[j].opnds[4], NewValue(p))
       ELSE RangeOf(form, NewOps[j].opnds[3], NewOps[j].opnds[4], NewOps[j].opnds[1], numKind, p)

NotWritten(kind) == \A j \in 1..Len(NewOps) : NewOps[j].k # kind

Unsupported ==
  {"left indexing with positions as a data object is not supported (yet)",
   "left indexing by label is not supported yet",
   "cannot use left indexing with label in this case",
   "cannot use right indexing with label in this case"}

\* the write is rejected and the binding stays
Rejected(errors) == pc' = "error" /\ err' \in errors /\ symbolTable' = symbolTable

\* the write of positions, with the forms of ranges Ranges: rejected for
\* objects and labels and for a name without binding, else every axis
\* with a scalar or a range of Ranges is written
WriteIndexing(var, rowsForm, colsForm, Ranges) ==
  IF ~has(symbolTable, var)
  THEN Rejected({"cannot use left indexing before a value has been assigned"})
  ELSE IF {rowsForm, colsForm} \cap {"object", "string"} # {}
  THEN Rejected(Unsupported)
  ELSE /\ pc' = "lower"
       /\ rowsForm \in {"scalar"} \cup Ranges => AxisWritten(rowsForm, "insertRow", "numRows", 2)
       /\ colsForm \in {"scalar"} \cup Ranges =>
            AxisWritten(colsForm, "insertCol", "numCols", 2 + NPos(rowsForm))
       /\ {rowsForm, colsForm} \cap ({"scalar"} \cup Ranges) # {} =>
            symbolTable' = put(symbolTable, var, SymbolInfo(NewValue(Len(NewOps)), FALSE))

\* C20: a write with positions given as a data object or as a label, on
\* either axis and for matrices and frames alike, is rejected as
\* unsupported; a scalar position v writes [v, v + 1); a range writes
\* [lower, upper), a lower bound left out being 0 and an upper bound left
\* out the size of the axis; a rejected write leaves the binding of the
\* variable as it is; the write to a name without binding is rejected.
C20_WriteIndexing ==
  [][IndexedAssign(idxCtx'.var, idxCtx'.rows, idxCtx'.cols) =>
       WriteIndexing(idxCtx'.var, idxCtx'.rows, idxCtx'.cols, {"lo:hi", "lo:", ":hi", ":"})]_vars

\* C20, amended: as C20 for the ranges with at least one bound; an axis
\* whose range has no bound is an axis without positions: nothing is
\* inserted along it, and with no positions on either axis the variable
\* is bound to the value assigned.
C20_WriteIndexingOfBoundedRanges ==
  [][IndexedAssign(idxCtx'.var, idxCtx'.rows, idxCtx'.cols) =>
       /\ WriteIndexing(idxCtx'.var, idxCtx'.rows, idxCtx'.cols, {"lo:hi", "lo:", ":hi"})
       /\ (has(symbolTable, idxCtx'.var)
             /\ {idxCtx'.rows, idxCtx'.cols} \cap {"object", "string"} = {}) =>
            /\ idxCtx'.rows \in {"none", ":"} => NotWritten("insertRow")
            /\ idxCtx'.cols \in {"none", ":"} => NotWritten("insertCol")
            /\ {idxCtx'.rows, idxCtx'.cols} \subseteq {"none", ":"} =>
                 /\ Len(NewOps) = 1
                 /\ symbolTable' =
                      put(symbolTable, idxCtx'.var, SymbolInfo(NewValue(1), FALSE))]_vars

\* the last statement has written the row [v, v + 1) and the columns from
\* 0 to a given upper bound of x:  x[v, :hi] = 1;
C20_Witness ==
  /\ pc = "lower"
  /\ cnt.assigns > 0
  /\ idxCtx = [var |-> "x", rows |-> "scalar", cols |-> ":hi"]
  /\ Len(Top.ops) >= 3
  /\ Last(Top.ops).k = "insertRow"
  /\ get(symbolTable, "x").value = Res(Last(Top.ops), 1, Last(Top.ops).rty[1])
  /\ \E j \in 1..Len(Top.ops) :
       /\ Top.ops[j].k = "insertCol"
       /\ Top.ops[j].id > Last(Top.ops).opnds[3][2]
       /\ \E k \in 1..Len(Top.ops) :
            Top.ops[k].k = "const 0" /\ Top.ops[j].opnds[3] = Res(Top.ops[k], 1, "si64")
  /\ \E k \in 1..Len(Top.ops) :
       /\ Top.ops[k].k = "cast"
       /\ Last(Top.ops).opnds[4] = Res(Top.ops[k], 1, "si64")


\* ------------------------------------------------------------------------
\* Right indexing
\* ------------------------------------------------------------------------
\* the new operations that extract or slice along an axis
AxisOps(extractKind, sliceKind) ==
  {j \in 1..Len(NewOps) : NewOps[j].k \in {extractKind, sliceKind}}

\* what the step along the axis gives: the result of its operation, or
\* arg if there is none
AxisValue(extractKind, sliceKind, arg) ==
  IF AxisOps(extractKind, sliceKind) = {} THEN arg
  ELSE NewValue(CHOOSE j \in AxisOps(extractKind, sliceKind) : TRUE)

\* the dispatch along one axis whose position expressions start at the
\* p-th new operation: an extract for an object or a label, the slice
\* [v, v + 1) for a scalar, the slice of the range for the forms Ranges,
\* and no operation otherwise
AxisRead(form, extractKind, sliceKind, numKind, arg, p, Ranges) ==
  IF form \in {"object", "string", "scalar"} \cup Ranges
  THEN /\ Cardinality(AxisOps(extractKind, sliceKind)) = 1
       /\ \A j \in AxisOps(extractKind, sliceKind) :
            /\ NewOps[j].opnds[1] = arg
            /\ form \in {"object", "string"} =>
                 NewOps[j].k = extractKind /\ NewOps[j].opnds = <<arg, NewValue(p)>>
            /\ form = "scalar" =>
                 /\ NewOps[j].k = sliceKind
                 /\ WidthOneRange(NewOps[j].opnds[2], NewOps[j].opnds[3], NewValue(p))
            /\ form \in Ranges =>
                 /\ NewOps[j].k = sliceKind
                 /\ RangeOf(form, NewOps[j].opnds[2], NewOps[j].opnds[3], arg, numKind, p)
  ELSE AxisOps(extractKind, sliceKind) = {}

\* the read of var[rowsForm, colsForm]: a label is an error for rows and
\* for the columns of an object that is not a frame; else the rows are
\* read from the object, the columns from what the row step gave, and
\* the result is what the column step gave
ReadIndexing(var, rowsForm, colsForm, Ranges) ==
  IF ~has(symbolTable, var) THEN pc' = "error"
  ELSE IF rowsForm = "string"
          \/ (colsForm = "string" /\ TypeOf(get(symbolTable, var).value) # "frame")
  THEN pc' = "error" /\ err' = "cannot use right indexing with label in this case"
  ELSE /\ pc' = "lower"
       /\ AxisRead(rowsForm, "extractRow", "sliceRow", "numRows",
                   get(symbolTable, var).value, 1, Ranges)
       /\ AxisRead(colsForm, "extractCol", "sliceCol", "numCols",
                   AxisValue("extractRow", "sliceRow", get(symbolTable, var).value),
                   1 + NPos(rowsForm), Ranges)
       /\ Last(NewOps).k = "call"
       /\ Last(NewOps).opnds =
            <<AxisValue("extractCol", "sliceCol",
                        AxisValue("extractRow", "sliceRow", get(symbolTable, var).value))>>

\* C21: read indexing per axis: no operation for an axis without
\* positions; an indexed extract for a data object; a label-based extract
\* for a label on the columns of a frame and an error for a label on rows
\* or on the columns of a non-frame; the slice [v, v + 1) for a scalar v;
\* for a range the slice [lower, upper), a bound left out being 0 or the
\* size of the axis; with both axes the row step is first and the column
\* step is applied to its result.
C21_ReadIndexing ==
  [][RightIdxExtractExpr(idxCtx'.var, idxCtx'.rows, idxCtx'.cols) =>
       ReadIndexing(idxCtx'.var, idxCtx'.rows, idxCtx'.cols, {"lo:hi", "lo:", ":hi", ":"})]_vars

\* C21, amended: as C21 for the ranges with at least one bound; a range
\* without bounds is an axis without positions and gives no operation.
C21_ReadIndexingOfBoundedRanges ==
  [][RightIdxExtractExpr(idxCtx'.var, idxCtx'.rows, idxCtx'.cols) =>
       ReadIndexing(idxCtx'.var, idxCtx'.rows, idxCtx'.cols, {"lo:hi", "lo:", ":hi"})]_vars

\* x[v, "label"] of a frame x has been read: the slice of the row, then
\* the extract of the column from that slice
C21_Witness ==
  /\ pc = "lower"
  /\ idxCtx = [var |-> "x", rows |-> "scalar", cols |-> "string"]
  /\ Len(Top.ops) >= 3
  /\ Last(Top.ops).k = "call"
  /\ \E j, k \in 1..Len(Top.ops) :
       /\ Top.ops[j].k = "sliceRow"
       /\ Top.ops[j].opnds[1] = get(symbolTable, "x").value
       /\ Top.ops[k].k = "extractCol"
       /\ Top.ops[k].opnds[1] = Res(Top.ops[j], 1, "frame")
       /\ Last(Top.ops).opnds = <<Res(Top.ops[k], 1, "frame")>>


\* ------------------------------------------------------------------------
\* Indexing at run time
\* ------------------------------------------------------------------------
\* the script was  y = x[2:5, ];  y = f(y);  x[2:5, ] = y;
BandScript == idxCtx.var = "x" /\ idxCtx.rows = "lo:hi" /\ idxCtx.cols = "none"

\* C22: slicing the rows [2, 5) of a matrix, applying a pointwise function
\* to the slice and inserting the result at the rows [2, 5) gives the
\* matrix with the function applied to the cells of the rows 2, 3 and 4
\* and with every other row as it was.
C22_RowBandRoundTrip ==
  (pc = "done" /\ BandScript) =>
    /\ env.result.nr = env.x.nr
    /\ env.result.nc = env.x.nc
    /\ DOMAIN env.result.d = DOMAIN env.x.d
    /\ \A p \in DOMAIN env.x.d :
         env.result.d[p] = IF p[1] - 1 \in 2..4 THEN <<"f", env.x.d[p]>> ELSE env.x.d[p]

\* the round trip on a matrix of six rows and two columns has been run
C22_Witness ==
  /\ pc = "done"
  /\ BandScript
  /\ env.x.nr = 6
  /\ env.x.nc = 2
  /\ env.result.d[<<3, 2>>] = <<"f", <<"x", 3, 2>>>>
  /\ env.result.d[<<6, 1>>] = <<"x", 6, 1>>
  /\ Cardinality({j \in 1..Len(Top.ops) : Top.ops[j].k \in {"sliceRow", "f", "insertRow"}}) = 3

\* ------------------------------------------------------------------------
\* C23: the write of rows and columns at once
\* ------------------------------------------------------------------------
\* x[rows, cols] = y has been lowered
CellWritten == pc \in {"exec", "done"} /\ ~BandScript

\* the operations of indexing of the block, in their order
IndexingOps ==
  SelectSeq(Top.ops, LAMBDA o : o.k \in {"extractRow", "sliceRow", "extractCol", "sliceCol",
                                         "insertRow", "insertCol"})

\* what the operand q of the operation op is when the function runs
Operand(op, q) ==
  ValueOf(op.opnds[q], Exec(Top.ops, 1, <<>>, <<env.x, env.y>>, env.lits), <<env.x, env.y>>)

\* the result of the operation op is the value v
IsResultOf(v, op) == v[1] = "res" /\ v[2] = op.id

\* the three operations: the rows env.at[1..2] of the argument x are read,
\* the argument y is inserted at the columns env.at[3..4] of what was read,
\* and the result is inserted into x at the rows env.at[1..2]; the name x
\* is bound to the last
ThreeComposed(ops) ==
  /\ Len(ops) = 3
  /\ ops[1].k = "sliceRow"
  /\ ops[1].opnds[1] = symbolTable[1]["x"].value
  /\ <<Operand(ops[1], 2), Operand(ops[1], 3)>> = <<env.at[1], env.at[2]>>
  /\ ops[2].k = "insertCol"
  /\ IsResultOf(ops[2].opnds[1], ops[1])
  /\ ops[2].opnds[2] = symbolTable[1]["y"].value
  /\ <<Operand(ops[2], 3), Operand(ops[2], 4)>> = <<env.at[3], env.at[4]>>
  /\ ops[3].k = "insertRow"
  /\ ops[3].opnds[1] = symbolTable[1]["x"].value
  /\ IsResultOf(ops[3].opnds[2], ops[2])
  /\ <<Operand(ops[3], 3), Operand(ops[3], 4)>> = <<env.at[1], env.at[2]>>
  /\ IsResultOf(get(symbolTable, "x").value, ops[3])

\* x with the cells of the rows env.at[1..2] and the columns env.at[3..4]
\* replaced by the cells of y, every other cell as it was
AtomicUpdate ==
  [env.x EXCEPT !.d = [p \in DOMAIN env.x.d |->
                         IF /\ env.at[1] < p[1] /\ p[1] <= env.at[2]
                            /\ env.at[3] < p[2] /\ p[2] <= env.at[4]
                         THEN env.y.d[<<p[1] - env.at[1], p[2] - env.at[3]>>]
                         ELSE env.x.d[p]]]

\* the result of the run is the atomic update
EqualsAtomicUpdate ==
  /\ env.result.nr = env.x.nr
  /\ env.result.nc = env.x.nc
  /\ DOMAIN env.result.d = DOMAIN env.x.d
  /\ \A p \in DOMAIN env.x.d : env.result.d[p] = AtomicUpdate.d[p]

\* C23: every write x[r, c] = y of rows and columns is lowered to the three
\* operations slice of the rows r of x, insert of y at the columns c of
\* the slice, insert of the result at the rows r of x, and the run gives x
\* with exactly the cells of r and c replaced by y.
C23_ComposedWrite ==
  /\ CellWritten => ThreeComposed(IndexingOps)
  /\ (CellWritten /\ pc = "done") => EqualsAtomicUpdate

\* C23, for the code as it is: the three operations are created when both
\* axes have a position or a range with a bound; an axis given as ":" is
\* handled as an axis that is not given (one insert on the other axis, or
\* none).  The run gives the atomic update in every case.
C23_ComposedWriteOfBoundedRanges ==
  /\ (CellWritten /\ idxCtx.rows # ":" /\ idxCtx.cols # ":") => ThreeComposed(IndexingOps)
  /\ (CellWritten /\ pc = "done") => EqualsAtomicUpdate

C23_Witness ==
  /\ CellWritten /\ pc = "done"
  /\ idxCtx.rows = "lo:hi" /\ idxCtx.cols = "scalar"
  /\ env.x.nr = 4 /\ env.x.nc = 2
  /\ env.at = <<1, 3, 1, 2>>
  /\ ThreeComposed(IndexingOps)
  /\ env.result.d[<<3, 2>>] = <<"v", 2, 1>>
  /\ env.result.d[<<3, 1>>] = <<"x", 3, 1>>
  /\ env.result.d[<<4, 2>>] = <<"x", 4, 2>>

\* ------------------------------------------------------------------------
\* C24: the uses inside a loop after its construction
\* ------------------------------------------------------------------------
\* the step that closes a loop of any kind
LoopBuilt ==
  /\ pc = "lower" /\ pc' = "lower"
  /\ Top.k \in {"while", "dowhile", "for", "parfor"}
  /\ Len(stack') = Len(stack) - 1

\* the operations of region r as the body has left them, before the loop
\* operation exists
RegionBefore(r) ==
  IF Top.k = "while" THEN (IF r = 1 THEN Top.saved ELSE Top.ops)
  ELSE IF r = 1 THEN Top.ops ELSE <<>>

\* the placeholder of the induction variable
Placeholder == IF Top.k \in {"for", "parfor"} THEN {Top.aux[4]} ELSE {}

\* v is the parameter idx of region r of the loop operation op
IsRegionParam(v, op, r, idx) ==
  /\ v[1] = (IF r = 1 THEN "arg1" ELSE "arg2")
  /\ v[2] = op.id
  /\ v[4] = idx

\* the use of the value old inside region r of op has become the value new
RewrittenUse(old, new, op, r) ==
  IF old \in Placeholder THEN IsRegionParam(new, op, r, 1)
  ELSE IF \E q \in 1..Len(LoopCarried) : PreLoopValues[q] = old
  THEN \A q \in 1..Len(LoopCarried) :
         PreLoopValues[q] = old =>
           IsRegionParam(new, op, r, IF op.k \in {"for", "parfor"} THEN q + 1 ELSE q)
  ELSE new = old \/ (op.k = "parfor" /\ \E idx \in 2..(Len(op.opnds) - 2) :
                                          IsRegionParam(new, op, r, idx))

\* no pre-loop value of a loop-carried name and no placeholder is used in
\* region (a block), at any depth
NoneUsedIn(block) ==
  \A o \in AllOps(block) : \A k \in 1..Len(o.opnds) :
    /\ o.opnds[k] \notin Placeholder
    /\ \A q \in 1..Len(LoopCarried) : o.opnds[k] # PreLoopValues[q]

\* every operation that the body has left in region r, at any depth, is
\* in the region new of op with its uses rewritten
UsesRewritten(op, r, new) ==
  \A o \in AllOps(RegionBefore(r)) :
    \E o2 \in AllOps(new) :
      /\ OpKey(o2) = OpKey(o)
      /\ Len(o2.opnds) = Len(o.opnds)
      /\ \A k \in 1..Len(o.opnds) : RewrittenUse(o.opnds[k], o2.opnds[k], op, r)

\* the operations before the loop operation, and the blocks around it,
\* are what they were
OutsideUnchanged ==
  /\ SubSeq(stack', 1, Len(stack') - 1) = SubSeq(stack, 1, Len(stack) - 2)
  /\ Front(stack'[Len(stack')].ops) = stack[Len(stack) - 1].ops

\* C24: when a while, do-while, for or parfor operation has been built, no
\* operation in its regions, at any depth, uses the pre-loop value of a
\* loop-carried name or the placeholder of the induction variable; each
\* such use has become the parameter of the region it lies in; the
\* operations outside the loop are unchanged.
C24_UsesRewritten ==
  [][LoopBuilt =>
       /\ NoneUsedIn(NewLoopOp.r1)
       /\ NoneUsedIn(NewLoopOp.r2)
       /\ UsesRewritten(NewLoopOp, 1, NewLoopOp.r1)
       /\ UsesRewritten(NewLoopOp, 2, NewLoopOp.r2)
       /\ OutsideUnchanged]_vars

\* a while loop whose conditional, nested in the body, has handed on the
\* pre-loop x: the yield of the else branch reads the parameter of the
\* body region
C24_Witness ==
  /\ pc = "lower"
  /\ Len(stack) = 1
  /\ Top.ops # <<>>
  /\ Last(Top.ops).k = "while"
  /\ Len(Last(Top.ops).opnds) = 1
  /\ Last(Top.ops).opnds[1] = Param(1, "si64")
  /\ \E o \in AllOps(Last(Top.ops).r2) :
       /\ o.k = "if"
       /\ \E y \in AllOps(o.r2) :
            y.k = "yield" /\ IsRegionParam(y.opnds[1], Last(Top.ops), 2, 1)
  /\ \E o \in AllOps(Last(Top.ops).r1) :
       o.k = "cmp" /\ IsRegionParam(o.opnds[1], Last(Top.ops), 1, 1)

\* ------------------------------------------------------------------------
\* C25: several applicable functions
\* ------------------------------------------------------------------------
\* the registered functions of the name g with one parameter that
\* map(X, g) may select for the element type of X
UnaryCandidates(argTy) ==
  {j \in 1..Len(functionsSymbolMap) :
     /\ functionsSymbolMap[j].name = "g"
     /\ Len(functionsSymbolMap[j].inputs) = 1
     /\ TypesAgree(functionsSymbolMap[j].inputs[1], getElementType(argTy))}

\* the one of the functions S that was registered first
RegisteredFirst(S) == CHOOSE j \in S : \A k \in S : j <= k

\* C25: when two or more registered functions are candidates of a call,
\* the call selects the one registered first and there is no error; so
\* for the call g(...) and for the function g given by name to map.
C25_FirstRegistered ==
  [][/\ (CallExpr(maybeUDF'.args) /\ Cardinality(Candidates(maybeUDF'.args)) >= 2) =>
          /\ maybeUDF'.udf = RegisteredFirst(Candidates(maybeUDF'.args))
          /\ maybeUDF'.op = "GenericCallOp"
          /\ pc' = pc /\ err' = err
     /\ (/\ maybeUDF'.name = "map"
         /\ MapOpCall(maybeUDF'.args[1])
         /\ maybeUDF'.args[1] \in MatrixTypes
         /\ Cardinality(UnaryCandidates(maybeUDF'.args[1])) >= 2) =>
          /\ maybeUDF'.udf = RegisteredFirst(UnaryCandidates(maybeUDF'.args[1]))
          /\ maybeUDF'.op = "map"
          /\ pc' = pc /\ err' = err]_vars

\* g(f64) was registered before g(si64); map(X, g) with X a matrix of
\* unknown element type has selected g(f64)
C25_Witness ==
  /\ functionsSymbolMap = <<[name |-> "g", inputs |-> <<"f64">>],
                             [name |-> "g", inputs |-> <<"si64">>]>>
  /\ maybeUDF.name = "map"
  /\ maybeUDF.args = <<"matrix<unknown>">>
  /\ UnaryCandidates("matrix<unknown>") = {1, 2}
  /\ maybeUDF.udf = 1
  /\ pc = "module"

\* ------------------------------------------------------------------------
\* C26: the balance of scopes
\* ------------------------------------------------------------------------
\* the scopes that an open construct holds: the one scope of a symbol
\* table (script), that and the one of the body's block statement
\* (function), the one of a block statement, the one of a branch or of a
\* loop and the one of its block statement, and for a do-while the one
\* shared by body and condition as well
ScopesOf(k) ==
  IF k \in {"script", "block"} THEN 1
  ELSE IF k = "dowhile" THEN 3
  ELSE 2

RECURSIVE ScopesOpened(_)
\* the scopes of the open constructs up to the j-th
ScopesOpened(j) == IF j = 0 THEN 0 ELSE ScopesOf(stack[j].k) + ScopesOpened(j - 1)

\* C26: while statements are lowered the symbol table has at least one
\* scope and exactly the scopes of the constructs that are open, so that
\* every construct that has been closed without error has left the number
\* of scopes as it found it; after the body of a function only the scope
\* of the function's table is left, and after the definition the table
\* has the scopes it had before it.
C26_ScopeBalance ==
  /\ pc \in {"script", "lower"} =>
       /\ Len(symbolTable) >= 1
       /\ Len(symbolTable) = ScopesOpened(Len(stack))
  /\ pc \in {"rectify", "finish"} => Len(symbolTable) = 1
  /\ pc = "done" => Len(symbolTable) = Len(globalSymbolTable) /\ Len(symbolTable) = 1

\* a do-while loop and a conditional are open in a function: seven scopes;
\* a block of the script has been closed before the definition
C26_Witness ==
  /\ pc = "lower"
  /\ Len(stack) = 3
  /\ stack[1].k = "func" /\ stack[2].k = "dowhile" /\ stack[3].k = "then"
  /\ Len(symbolTable) = 7
  /\ Len(globalSymbolTable) = 1
  /\ cnt.blocks = 1
  /\ has(globalSymbolTable, "i")

\* ------------------------------------------------------------------------
\* C27: an early return in a function without a return at its end
\* ------------------------------------------------------------------------
\* the last operation of the outer block is not a return, and the block
\* has returns, all of them nested in conditionals only
FallsOffTheEnd(block) ==
  /\ block # <<>>
  /\ Last(block).k # "ret"
  /\ Returns(block) # {}
  /\ \A p \in Returns(block) : Len(p) > 1 /\ AncestorKinds(block, p) = {"if"}

\* C27: for a body with returns nested in conditionals and no return as
\* its last operation the rewriting finishes without error, and the
\* finished function holds exactly one return, its last operation, every
\* branch of every conditional ending in a yield.
C27_FallsOffTheEnd ==
  FallsOffTheEnd(origBlock) =>
    /\ pc \notin {"error"} \cup UBOutcomes
    /\ pc = "done" => OneTrailingReturn(funcBlock)

\* ------------------------------------------------------------------------
\* C28: names do not escape the construct that created them
\* ------------------------------------------------------------------------
BoundNames(st) == {n \in Names : has(st, n)}

\* the scopes below those of the innermost open construct: the symbol
\* table as the construct has found it
Enclosing == SubSeq(symbolTable, 1, Len(symbolTable) - ScopesOf(Top.k))

StatementStep == pc \in {"script", "lower"} /\ pc' = pc

\* `}` of a block, a conditional or a loop
ConstructCloses == StatementStep /\ Len(stack') = Len(stack) - 1

\* `} else {`
BranchCloses ==
  StatementStep /\ Len(stack') = Len(stack) /\ Top.k = "then" /\ stack'[Len(stack')].k = "else"

\* the operation a conditional or a loop has been lowered to
ClosedOp == Last(stack'[Len(stack')].ops)

\* the names that are bound to a result of the operation
LiveOut(st, op) ==
  {n \in BoundNames(st) : \E q \in 1..Len(op.rty) : get(st, n).value = Res(op, q, op.rty[q])}

\* the scopes of the enclosing constructs but the innermost are as they were
OuterScopesKept(st, before) ==
  /\ Len(st) = Len(before)
  /\ \A s \in 1..(Len(before) - 1) : st[s] = before[s]

\* C28: a construct does not touch the scopes it has found while it is
\* open.  When a block, a branch or a loop is closed the bound names are
\* those that were bound when it was opened, a name first bound inside
\* being unbound again; the results of the conditional or loop are bound
\* to as many names, all of them bound before; only the innermost
\* enclosing scope is changed; the induction variable of a for or parfor
\* that was unbound before the loop is unbound after it.
C28_NoEscape ==
  [][/\ (StatementStep /\ Len(stack') >= Len(stack)) =>
         SubSeq(symbolTable', 1, Len(Enclosing)) = Enclosing
     /\ BranchCloses =>
         BoundNames(SubSeq(symbolTable', 1, Len(symbolTable') - 2)) = BoundNames(Enclosing)
     /\ ConstructCloses =>
         /\ BoundNames(symbolTable') = BoundNames(Enclosing)
         /\ OuterScopesKept(symbolTable', Enclosing)
         /\ Top.k # "block" =>
               /\ LiveOut(symbolTable', ClosedOp) \subseteq BoundNames(Enclosing)
               /\ Cardinality(LiveOut(symbolTable', ClosedOp)) = Len(ClosedOp.rty)
         /\ (Top.k \in {"for", "parfor"} /\ ~has(Enclosing, Top.var)) =>
               ~has(symbolTable', Top.var)]_vars

\* the body of the function holds a for loop whose body has assigned x,
\* which the loop carries, and the induction variable i is unbound behind
\* the loop; the script has bound i in a block, not outside of it
C28_Witness ==
  /\ pc = "lower"
  /\ Len(stack) = 1
  /\ Top.ops # <<>>
  /\ Last(Top.ops).k = "for"
  /\ Len(Last(Top.ops).rty) = 1
  /\ get(symbolTable, "x").value = Res(Last(Top.ops), 1, "si64")
  /\ ~has(symbolTable, "i")
  /\ cnt.blocks = 1
  /\ Len(guard) = 1
  /\ guard[1].ops # <<>>
  /\ ~has(globalSymbolTable, "i")

\* ------------------------------------------------------------------------
\* C29: no two names are bound to the same value
\* ------------------------------------------------------------------------
\* the value that the name resolves to
Visible(st, n) == get(st, n).value

NoAlias(st) ==
  \A n, m \in BoundNames(st) : n # m => Visible(st, n) # Visible(st, m)

\* C29: while statements are lowered no two names resolve to the same
\* value; an assignment of the value of y to another name (x = y, i = y,
\* x[, ] = y) creates a rename of that value as its only operation and
\* binds the target to the result of the rename, the binding of y left
\* as it is.
C29_NoAliasing ==
  /\ [](pc = "lower" => NoAlias(symbolTable))
  /\ [][(visitAssignStatement_alias \/ visitAssignStatement_empty) /\ pc' = "lower" =>
          LET y == Visible(symbolTable, "y")
          IN  /\ Len(NewOps) = 1
              /\ NewOps[1].k = "rename"
              /\ NewOps[1].opnds = <<y>>
              /\ \E var \in AliasTargets :
                    /\ has(symbolTable', var)
                    /\ Visible(symbolTable', var) = Res(NewOps[1], 1, TypeOf(y))
                    /\ Visible(symbolTable', var) # y
              /\ Visible(symbolTable', "y") = y]_vars

\* x = y has been lowered in the body of a loop that is closed: x is
\* carried by the loop, y is bound to the parameter as before
C29_Witness ==
  /\ pc = "lower"
  /\ Len(stack) = 1
  /\ Top.ops # <<>>
  /\ Last(Top.ops).k \in {"while", "for"}
  /\ \E j \in 1..Len(Last(Top.ops).r1) :
        /\ Last(Top.ops).r1[j].k = "rename"
        /\ Last(Top.ops).r1[j].opnds = <<Param(2, "f64")>>
  /\ Visible(symbolTable, "x") = Res(Last(Top.ops), 1, "f64")
  /\ Visible(symbolTable, "y") = Param(2, "f64")

\* ------------------------------------------------------------------------
\* C30: a function definition is isolated from the bindings of the script
\* ------------------------------------------------------------------------
\* no name of the function's table resolves to a value of the script
Isolated(st, global) ==
  \A n \in BoundNames(st) : \A m \in BoundNames(global) :
     Visible(st, n) # Visible(global, m)

DefinitionStep == pc = "script" /\ pc' \in {"lower", "error"}

InDefinition == pc \in {"lower", "rectify", "finish"}

\* C30: a definition is accepted exactly when the symbol table of the
\* script has one scope, else it fails as not at top-level.  The body
\* starts with a table that binds the parameters only; while it is
\* lowered no name resolves to a value of the script, and a reference to
\* i that the body has not bound fails as referenced before assignment.
\* The table and the insertion position of the script are put aside
\* untouched, and behind the definition they are the table and the
\* position again.
C30_FunctionIsolated ==
  /\ [](pc = "lower" => Isolated(symbolTable, globalSymbolTable))
  /\ [](pc = "done" => symbolTable = globalSymbolTable /\ stack = guard)
  /\ [][DefinitionStep =>
          /\ pc' = "lower" <=> Len(symbolTable) = 1
          /\ pc' = "error" => err' = "Functions can only be defined at top-level"
          /\ pc' = "lower" =>
                /\ globalSymbolTable' = symbolTable
                /\ guard' = stack
                /\ BoundNames(symbolTable') = {"x", "y"}
                /\ Visible(symbolTable', "x") = Param(1, "si64")
                /\ Visible(symbolTable', "y") = Param(2, "f64")]_vars
  /\ [][InDefinition => globalSymbolTable' = globalSymbolTable /\ guard' = guard]_vars
  /\ [][(visitIdentifierExpr /\ ~has(symbolTable, "i")) =>
          pc' = "error" /\ err' = "referenced before assignment"]_vars

\* the script has bound i and lowered operations, the body of the function
\* has lowered statements of its own, and behind the definition i is
\* bound as before, x and y are not, and the position is that of the
\* script
C30_Witness ==
  /\ pc = "done"
  /\ Len(funcBlock) >= 2
  /\ BoundNames(symbolTable) = {"i"}
  /\ symbolTable = globalSymbolTable
  /\ Len(stack) = 1
  /\ Top.k = "script"
  /\ Top.ops # <<>>
  /\ stack = guard

====
